---- MODULE Spec2Model ----
(***************************************************************************)
(* Model of the Go test-suite provider: the declaration parser             *)
(* (goParser.ts), the test catalog (tree of test items + identity index)   *)
(* and the run/debug orchestration (testProvider.ts).                      *)
(*                                                                         *)
(* Thirteen specifications share the variables:                            *)
(*   Spec         - the catalog under filesystem events, resolve requests  *)
(*                  and full rescans, with handlers suspended on their     *)
(*                  awaits;                                                *)
(*   SpecRun      - one run/debug request over a discovered catalog;       *)
(*   SpecPurge    - _purgeEntriesWithNoChildren over every tree;           *)
(*   SpecDiscover - _discoverTestsInFile over every tree and content;      *)
(*   SpecParse    - the parser's methods over every short text;            *)
(*   SpecResolve  - parse over test files: a package statement, imports,   *)
(*                  declarations;                                          *)
(*   SpecScan     - opened documents of every kind of URI, on either       *)
(*                  platform;                                              *)
(*   SpecWatch    - the watcher's handlers for one file of a discovered    *)
(*                  workspace;                                             *)
(*   SpecRunFair  - SpecRun under weak fairness of the handler's steps;    *)
(*   SpecTwin     - a debug request while a second session carries the     *)
(*                  same id;                                               *)
(*   SpecExclude  - run requests with an exclusion set;                    *)
(*   SpecCommand  - the adapters' run and debug commands for every item;   *)
(*   SpecAdapters - the adapters' discoverTestFunctions over contents with *)
(*                  and without a package statement.                       *)
(***************************************************************************)
EXTENDS Integers, Sequences, FiniteSets, TLC

(***************************************************************************)
(* Bounds of the model.                                                    *)
(***************************************************************************)
\* number of handler tasks that may be suspended at the same time
MaxTasks == 2
\* number of external events (filesystem events, requests) in a behaviour
MaxEvents == 3
\* number of watchers that full rescans may register
MaxWatchers == 2
\* number of selected nodes in the include list of a run request
MaxInclude == 2
\* number of output chunks a debug adapter tracker records
MaxChunks == 2

\* number of lines of a parsed text
MaxLines == 4
\* number of import statements and of declarations of a test file
MaxImports == 2
MaxDecls == 3

(***************************************************************************)
(* Source text.  A line is what the regular expressions of goParser.ts     *)
(* can tell apart; names are kept as strings, an alias as a sequence of    *)
(* words (empty = no alias written).                                       *)
(***************************************************************************)
_GOCHECK_MODULE_NAME == "gopkg.in/check.v1"
_GOCHECK_PACKAGE_NAME == "check"
_QUICKTEST_MODULE_NAME == "github.com/frankban/quicktest"
_QUICKTEST_PACKAGE_NAME == "quicktest"

NoName == ""

\* `package <name>`
PackageLine(name) ==
    [t |-> "package", name |-> name, alias |-> << >>, module |-> NoName,
     recv |-> NoName, fn |-> NoName, qual |-> NoName]
\* `import [alias] "module"`
ImportLine(alias, module) ==
    [t |-> "import", name |-> NoName, alias |-> alias, module |-> module,
     recv |-> NoName, fn |-> NoName, qual |-> NoName]
\* `import (`
OpenLine ==
    [t |-> "open", name |-> NoName, alias |-> << >>, module |-> NoName,
     recv |-> NoName, fn |-> NoName, qual |-> NoName]
\* `)`
CloseLine ==
    [t |-> "close", name |-> NoName, alias |-> << >>, module |-> NoName,
     recv |-> NoName, fn |-> NoName, qual |-> NoName]
\* `<ws>[alias] "module"`
EntryLine(alias, module) ==
    [t |-> "entry", name |-> NoName, alias |-> alias, module |-> module,
     recv |-> NoName, fn |-> NoName, qual |-> NoName]
\* `func (r *recv) fn(c *[qual.]C) {`
FuncLine(recv, fn, qual) ==
    [t |-> "func", name |-> NoName, alias |-> << >>, module |-> NoName,
     recv |-> recv, fn |-> fn, qual |-> qual]
\* any other line
OtherLine ==
    [t |-> "other", name |-> NoName, alias |-> << >>, module |-> NoName,
     recv |-> NoName, fn |-> NoName, qual |-> NoName]

\* regular expressions of goParser.ts as predicates on lines
MatchPackage(l) == l.t = "package"
MatchImportSingle(l) == l.t = "import"
MatchImportStart(l) == l.t = "open"
MatchImportEnd(l) == l.t = "close"
\* the entry pattern is not anchored on a keyword: inside a block a line
\* `import "m"` reads as an entry whose alias is the text before the quote
MatchImportEntry(l) == l.t \in {"entry", "import"}
EntryAlias(l) == IF l.t = "import" THEN <<"import">> \o l.alias ELSE l.alias
MatchTestFunction(l) == l.t = "func"

Absent == [name |-> NoName, lineNumber |-> -1]

\* line numbers are 0-based as in the source; ls[n + 1] is line n
RECURSIVE FirstPackage(_, _)
FirstPackage(ls, n) ==
    IF n >= Len(ls) THEN Absent
    ELSE IF MatchPackage(ls[n + 1])
         THEN [name |-> ls[n + 1].name, lineNumber |-> n]
         ELSE FirstPackage(ls, n + 1)

\* parsePackageName that takes the first line for the package statement
parsePackageNameFirstLine(ls) ==
    IF Len(ls) = 0 THEN Absent ELSE [name |-> ls[1].name, lineNumber |-> 0]

parsePackageName(ls) == FirstPackage(ls, 0)

Import(l, n, alias) == [moduleName |-> l.module, alias |-> alias, lineNumber |-> n]

\* the inner loop taking the end of the text for the end of the block
RECURSIVE BlockScanOpenEnded(_, _, _, _)
BlockScanOpenEnded(ls, n, k, acc) ==
    IF n + k >= Len(ls) THEN [closed |-> TRUE, imports |-> acc, k |-> k - 1]
    ELSE LET l == ls[n + k + 1] IN
         IF MatchImportEnd(l) THEN [closed |-> TRUE, imports |-> acc, k |-> k]
         ELSE IF MatchImportEntry(l)
              THEN BlockScanOpenEnded(ls, n, k + 1, Append(acc, Import(l, n + k, EntryAlias(l))))
              ELSE BlockScanOpenEnded(ls, n, k + 1, acc)

\* the inner loop of acceptMultiLineImport: k is the offset into the block;
\* returns the collected entries and the offset of the closing line, or
\* closed = FALSE when the lines run out
RECURSIVE BlockScan(_, _, _, _)
BlockScan(ls, n, k, acc) ==
    IF n + k >= Len(ls) THEN [closed |-> FALSE, imports |-> << >>, k |-> k]
    ELSE LET l == ls[n + k + 1] IN
         IF MatchImportEnd(l) THEN [closed |-> TRUE, imports |-> acc, k |-> k]
         ELSE IF MatchImportEntry(l)
              THEN BlockScan(ls, n, k + 1, Append(acc, Import(l, n + k, EntryAlias(l))))
              ELSE BlockScan(ls, n, k + 1, acc)

\* the outer loop keeping the entries behind an opening line whose block
\* never closes
RECURSIVE ImportScanKeeping(_, _, _)
ImportScanKeeping(ls, n, result) ==
    IF n >= Len(ls) THEN result
    ELSE LET l == ls[n + 1] IN
         IF MatchImportSingle(l)
         THEN ImportScanKeeping(ls, n + 1, Append(result, Import(l, n, l.alias)))
         ELSE IF MatchImportStart(l)
              THEN LET b == BlockScanOpenEnded(ls, n, 1, << >>) IN
                   ImportScanKeeping(ls, n + 1 + b.k, result \o b.imports)
              ELSE ImportScanKeeping(ls, n + 1, result)

RECURSIVE ImportScan(_, _, _)
ImportScan(ls, n, result) ==
    IF n >= Len(ls) THEN result
    ELSE LET l == ls[n + 1] IN
         IF MatchImportSingle(l)
         THEN ImportScan(ls, n + 1, Append(result, Import(l, n, l.alias)))
         ELSE IF MatchImportStart(l)
              THEN LET b == BlockScan(ls, n, 1, << >>) IN
                   IF b.closed
                   THEN ImportScan(ls, n + 1 + b.k, result \o b.imports)
                   ELSE ImportScan(ls, n + 1, result)
              ELSE ImportScan(ls, n + 1, result)

parseImports(ls, start) == ImportScan(ls, start, << >>)

ImportsWithSameAlias(imports, q) ==
    {i \in 1..Len(imports) : imports[i].alias = <<q>>}

HasModule(imports, m) == \E i \in 1..Len(imports) : imports[i].moduleName = m

KindOfModule(m) ==
    IF m = _GOCHECK_MODULE_NAME THEN "gocheck"
    ELSE IF m = _QUICKTEST_MODULE_NAME THEN "quicktest"
    ELSE "undefined"

\* resolution through aliases only
ResolveAliasOnly(imports, q) ==
    LET same == ImportsWithSameAlias(imports, q) IN
    IF same # {}
    THEN imports[CHOOSE i \in same : \A j \in same : i <= j].moduleName
    ELSE NoName

\* module the qualifier of a test signature resolves to; NoName = skipped
ResolveQualifier(imports, q) ==
    LET same == ImportsWithSameAlias(imports, q) IN
    IF same # {}
    THEN imports[CHOOSE i \in same : \A j \in same : i <= j].moduleName
    ELSE IF q = _GOCHECK_PACKAGE_NAME
         THEN (IF HasModule(imports, _GOCHECK_MODULE_NAME)
               THEN _GOCHECK_MODULE_NAME ELSE NoName)
         ELSE IF q = _QUICKTEST_PACKAGE_NAME
              THEN (IF HasModule(imports, _QUICKTEST_MODULE_NAME)
                    THEN _QUICKTEST_MODULE_NAME ELSE NoName)
              ELSE NoName

\* a declaration whose kind is read off the qualifier's text
TestFunctionByQualifier(l, n, m) ==
    [kind |-> IF l.qual = _GOCHECK_PACKAGE_NAME THEN "gocheck"
              ELSE IF l.qual = _QUICKTEST_PACKAGE_NAME THEN "quicktest"
              ELSE "undefined",
     receiverType |-> l.recv, functionName |-> l.fn,
     argModule |-> m, lineNumber |-> n]

TestFunction(l, n, m) ==
    [kind |-> KindOfModule(m), receiverType |-> l.recv, functionName |-> l.fn,
     argModule |-> m, lineNumber |-> n]

\* the loop of parseTestFunctions skipping a declaration whose alias is
\* ambiguous
RECURSIVE FunctionScanSkipping(_, _, _, _)
FunctionScanSkipping(imports, ls, n, result) ==
    IF n >= Len(ls) THEN result
    ELSE LET l == ls[n + 1] IN
         IF ~MatchTestFunction(l) \/ l.qual = NoName
         THEN FunctionScanSkipping(imports, ls, n + 1, result)
         ELSE LET m == IF Cardinality(ImportsWithSameAlias(imports, l.qual)) > 1
                       THEN NoName
                       ELSE ResolveQualifier(imports, l.qual) IN
              IF m = NoName
              THEN FunctionScanSkipping(imports, ls, n + 1, result)
              ELSE FunctionScanSkipping(imports, ls, n + 1,
                                        Append(result, TestFunction(l, n, m)))

\* the loop of parseTestFunctions; aborted = the `return []` of an
\* ambiguous alias
RECURSIVE FunctionScan(_, _, _, _)
FunctionScan(imports, ls, n, result) ==
    IF n >= Len(ls) THEN result
    ELSE LET l == ls[n + 1] IN
         IF ~MatchTestFunction(l) \/ l.qual = NoName
         THEN FunctionScan(imports, ls, n + 1, result)
         ELSE IF Cardinality(ImportsWithSameAlias(imports, l.qual)) > 1
              THEN << >>
              ELSE LET m == ResolveQualifier(imports, l.qual) IN
                   IF m = NoName
                   THEN FunctionScan(imports, ls, n + 1, result)
                   ELSE FunctionScan(imports, ls, n + 1,
                                     Append(result, TestFunction(l, n, m)))

parseTestFunctions(imports, ls, start) == FunctionScan(imports, ls, start, << >>)

\* parse that collects from the top of the text
parseFromTop(ls) ==
    LET packageInfo == parsePackageName(ls) IN
    IF packageInfo = Absent
    THEN [parsed |-> FALSE, packageInfo |-> Absent, imports |-> << >>,
          testFunctions |-> << >>]
    ELSE LET imports == parseImports(ls, 0) IN
         [parsed |-> TRUE, packageInfo |-> packageInfo, imports |-> imports,
          testFunctions |-> parseTestFunctions(imports, ls, 0)]

\* parse: parsed = FALSE is the `undefined` result
parse(ls) ==
    LET packageInfo == parsePackageName(ls) IN
    IF packageInfo = Absent
    THEN [parsed |-> FALSE, packageInfo |-> Absent, imports |-> << >>,
          testFunctions |-> << >>]
    ELSE LET imports == parseImports(ls, 1 + packageInfo.lineNumber) IN
         [parsed |-> TRUE, packageInfo |-> packageInfo, imports |-> imports,
          testFunctions |-> parseTestFunctions(imports, ls, 1 + packageInfo.lineNumber)]

SelectKind(fs, kind) == SelectSeq(fs, LAMBDA x : x.kind = kind)

\* GocheckTestLibraryAdapter / QtsuiteTestLibraryAdapter
Adapters == {"gocheck", "qtsuite"}
AdapterKind(a) == IF a = "gocheck" THEN "gocheck" ELSE "quicktest"
\* discoverTestFunctions without the filter
discoverTestFunctionsUnfiltered(a, ls) == parse(ls).testFunctions
discoverTestFunctions(a, ls) == SelectKind(parse(ls).testFunctions, AdapterKind(a))


(***************************************************************************)
(* URIs and file contents of the modelled workspace.                       *)
(***************************************************************************)
\* a URI: scheme, directory segments, the characters of the file name in
\* front of its suffix, and whether the suffix is `_test.go`
Uri(scheme, dir, base, test) ==
    [scheme |-> scheme, dir |-> dir, base |-> base, test |-> test]

UX == Uri("file", <<"a">>, <<"x">>, TRUE)
UY == Uri("file", <<"a">>, <<"y">>, TRUE)
UData == Uri("file", <<"a", "testdata">>, <<"x">>, TRUE)
UHidden == Uri("file", <<"a">>, <<"_", "x">>, TRUE)
UDot == Uri("file", <<"a">>, <<".", "x">>, TRUE)
UPlain == Uri("file", <<"a">>, <<"x">>, FALSE)
UUntitled == Uri("untitled", <<"a">>, <<"x">>, TRUE)

ValidUris == {UX, UY}
Uris == ValidUris
AllUris == Uris \cup {UData, UHidden, UDot, UPlain, UUntitled}

\* contents by name
Text(c) ==
    CASE c = "none" -> << OtherLine >>
      [] c = "bare" -> << PackageLine("p") >>
      [] c = "pA" -> << PackageLine("p"), ImportLine(<< >>, _GOCHECK_MODULE_NAME),
                        FuncLine("R", "TestA", "check") >>
      [] c = "pAB" -> << PackageLine("p"), ImportLine(<< >>, _GOCHECK_MODULE_NAME),
                         FuncLine("R", "TestA", "check"),
                         FuncLine("S", "TestB", "check") >>
      [] c = "pRR" -> << PackageLine("p"), ImportLine(<< >>, _GOCHECK_MODULE_NAME),
                         FuncLine("R", "TestA", "check"),
                         FuncLine("R", "TestB", "check") >>
      [] c = "qA" -> << PackageLine("q"), ImportLine(<<"c">>, _GOCHECK_MODULE_NAME),
                        ImportLine(<< >>, _QUICKTEST_MODULE_NAME),
                        FuncLine("R", "TestA", "c"),
                        FuncLine("Q", "TestQ", "quicktest") >>
      [] OTHER -> << >>

Contents == {"none", "pAB", "qA"}
NoFile == "absent"

(***************************************************************************)
(* The catalog: the tree of test items and the identity index.             *)
(* A node is the path of identifiers from its root:                        *)
(*   <<pkg>>, <<pkg, file>>, <<pkg, file, suite>>, <<pkg, file, suite, f>>  *)
(* with pkg = <<directory, package name>>, file = the file name without    *)
(* extension, suite = the receiver type, f = <<receiver, function>>.       *)
(* An item collection keeps one item per identifier, so the tree is the    *)
(* set of its paths; iteration order of a collection is not modelled.      *)
(***************************************************************************)
NoFunction ==
    [kind |-> "undefined", receiverType |-> NoName, functionName |-> NoName,
     argModule |-> NoName, lineNumber |-> -1]

\* TestData
PackageData == [kind |-> "package", name |-> NoName, data |-> NoFunction]
FileData == [kind |-> "file", name |-> NoName, data |-> NoFunction]
\* a suite entered in the index as a File
SuiteDataAsFile(name) == [kind |-> "file", name |-> name, data |-> NoFunction]
SuiteData(name) == [kind |-> "suite", name |-> name, data |-> NoFunction]
FunctionData(t) == [kind |-> "function", name |-> NoName, data |-> t]

Catalog(its, m, st) == [items |-> its, map |-> m, stale |-> st]
EmptyCatalog == Catalog({}, << >>, {})

IsPrefix(p, q) == Len(p) <= Len(q) /\ SubSeq(q, 1, Len(p)) = p

\* item.children
Children(its, p) == {q \in its : Len(q) = Len(p) + 1 /\ IsPrefix(p, q)}

\* util.ts traceChildren / childGenerator: every descendant, not the item
traceChildren(its, p) == {q \in its : Len(q) > Len(p) /\ IsPrefix(p, q)}

\* TestItem.uri: the directory for a package, the file for the others
ItemUri(p) == Uri("file", p[1][1], IF Len(p) = 1 THEN << >> ELSE p[2], Len(p) > 1)

Restrict(m, keys) == [k \in keys |-> m[k]]
MapDelete(m, keys) == Restrict(m, DOMAIN m \ keys)
MapSet(m, k, v) == [x \in DOMAIN m \cup {k} |-> IF x = k THEN v ELSE m[x]]

\* _findFileEntry: the file items whose uri is the given one; firstChild
\* returns the first of them in iteration order
FileEntries(c, uri) ==
    {x \in c.items : x \in DOMAIN c.map /\ c.map[x].kind = "file" /\ ItemUri(x) = uri}

\* filterChildren(controller.items, predicate) of the three finders
_findSuiteEntriesWithNoChildren(c) ==
    {x \in c.items : x \in DOMAIN c.map /\ c.map[x].kind = "suite"
                     /\ Children(c.items, x) = {}}
_findFileEntriesWithNoChildren(c) ==
    {x \in c.items : x \in DOMAIN c.map /\ c.map[x].kind = "file"
                     /\ Children(c.items, x) = {}}
_findPackageEntriesWithNoChildren(c) ==
    {x \in c.items : x \in DOMAIN c.map /\ c.map[x].kind = "package"
                     /\ Children(c.items, x) = {}}

\* one loop of _purgeEntriesWithNoChildren: index entry and item removed
PurgeSet(c, xs) == Catalog(c.items \ xs, MapDelete(c.map, xs), c.stale)

\* the three loops of the purge in the opposite order
PurgeTopDown(c) ==
    LET c1 == PurgeSet(c, _findPackageEntriesWithNoChildren(c))
        c2 == PurgeSet(c1, _findFileEntriesWithNoChildren(c1))
    IN PurgeSet(c2, _findSuiteEntriesWithNoChildren(c2))

_purgeEntriesWithNoChildren(c) ==
    LET c1 == PurgeSet(c, _findSuiteEntriesWithNoChildren(c))
        c2 == PurgeSet(c1, _findFileEntriesWithNoChildren(c1))
    IN PurgeSet(c2, _findPackageEntriesWithNoChildren(c2))

\* children.replace([]) after the index entries in `unindexed` were deleted:
\* every descendant leaves the tree, those still indexed become stale
ClearChildren(c, p, unindexed) ==
    LET gone == traceChildren(c.items, p) IN
    Catalog(c.items \ gone, MapDelete(c.map, gone),
            c.stale \cup {x \in gone \ unindexed : x \in DOMAIN c.map})

\* the synchronous head of _refreshFileEntry and of _refreshPackageEntry
RefreshFileHead(c, p) == ClearChildren(c, p, Children(c.items, p))
RefreshPackageHead(c, p) == ClearChildren(c, p, traceChildren(c.items, p))

\* the watcher's delete handler for a found file item
DeleteFileEntry(c, p) ==
    LET c1 == ClearChildren(c, p, {}) IN
    _purgeEntriesWithNoChildren(
        Catalog(c1.items \ {p}, MapDelete(c1.map, {p}), c1.stale))

\* path.sep of the platform the extension host runs on: '/' on POSIX,
\* '\\' on Windows
VARIABLE sep

PosixSep == "/"
Win32Sep == "\\"
Separators == {PosixSep, Win32Sep}

\* uri.path.split(s): uri.path is separated by '/' on every platform, so
\* another separator leaves it in one piece; a piece is the sequence of
\* names it spans
Split(uri, s) ==
    LET names == Append(uri.dir, "file") IN
    IF s = PosixSep THEN [i \in 1..Len(names) |-> <<names[i]>>] ELSE <<names>>

\* the checks of _discoverTestsInFile in front of the read, for path.sep = s
ScannableOn(s, uri) ==
    /\ uri.scheme = "file" /\ uri.test
    /\ \A i \in 1..Len(Split(uri, s)) : Split(uri, s)[i] # <<"testdata">>
    /\ ~(uri.base = << >> \/ uri.base[1] \in {".", "_"})

\* the checks on the platform at hand
Scannable(uri) == ScannableOn(sep, uri)

\* AddFunctions with function identifiers numbered by the suite's size
RECURSIVE AddFunctionsNumbered(_, _, _, _)
AddFunctionsNumbered(c, fileItem, discovered, i) ==
    IF i > Len(discovered) THEN c
    ELSE LET t == discovered[i]
             suiteItem == Append(fileItem, t.receiverType)
             item == Append(suiteItem, <<t.receiverType, t.functionName,
                                         Cardinality(Children(c.items, suiteItem))>>)
             m1 == IF suiteItem \in c.items THEN c.map
                   ELSE MapSet(c.map, suiteItem, SuiteData(t.receiverType))
         IN AddFunctionsNumbered(Catalog(c.items \cup {suiteItem, item},
                                         MapSet(m1, item, FunctionData(t)), c.stale),
                                 fileItem, discovered, i + 1)

\* the loop over the discovered functions
RECURSIVE AddFunctions(_, _, _, _)
AddFunctions(c, fileItem, discovered, i) ==
    IF i > Len(discovered) THEN c
    ELSE LET t == discovered[i]
             suiteItem == Append(fileItem, t.receiverType)
             item == Append(suiteItem, <<t.receiverType, t.functionName>>)
             m1 == IF suiteItem \in c.items THEN c.map
                   ELSE MapSet(c.map, suiteItem, SuiteData(t.receiverType))
             st == IF item \in c.items THEN c.stale \cup {item} ELSE c.stale
         IN AddFunctions(Catalog(c.items \cup {suiteItem, item},
                                 MapSet(m1, item, FunctionData(t)), st),
                         fileItem, discovered, i + 1)

\* DiscoverLines that clears the file's functions when it finds none
DiscoverLinesClearing(c, a, uri, ls) ==
    LET packageName == parsePackageName(ls).name
        discovered == discoverTestFunctions(a, ls)
        packageItem == << <<uri.dir, packageName>> >>
        fileItem == Append(packageItem, uri.base)
        m1 == IF packageItem \in c.items THEN c.map
              ELSE MapSet(c.map, packageItem, PackageData)
        m2 == IF fileItem \in c.items THEN m1 ELSE MapSet(m1, fileItem, FileData)
    IN IF packageName = NoName \/ discovered = << >>
       THEN Catalog({p \in c.items : ~(Len(p) = 4 /\ ItemUri(p) = uri)}, c.map, c.stale)
       ELSE AddFunctions(Catalog(c.items \cup {packageItem, fileItem}, m2, c.stale),
                         fileItem, discovered, 1)

\* _discoverTestsInFile behind the read: ls are the lines that were read
DiscoverLines(c, a, uri, ls) ==
    LET packageName == parsePackageName(ls).name
        discovered == discoverTestFunctions(a, ls)
        packageItem == << <<uri.dir, packageName>> >>
        fileItem == Append(packageItem, uri.base)
        m1 == IF packageItem \in c.items THEN c.map
              ELSE MapSet(c.map, packageItem, PackageData)
        m2 == IF fileItem \in c.items THEN m1 ELSE MapSet(m1, fileItem, FileData)
    IN IF packageName = NoName \/ discovered = << >> THEN c
       ELSE AddFunctions(Catalog(c.items \cup {packageItem, fileItem}, m2, c.stale),
                         fileItem, discovered, 1)

\* the same for one of the workspace's contents
DiscoverContent(c, a, uri, content) == DiscoverLines(c, a, uri, Text(content))

\* _discoverTestsInFile with the content at hand
_discoverTestsInFile(c, a, uri, content) ==
    IF Scannable(uri) THEN DiscoverContent(c, a, uri, content) ELSE c

\* _onUpdateEmitter fires when `updated` was set
Updated(a, uri, content) ==
    /\ Scannable(uri)
    /\ parsePackageName(Text(content)).name # NoName
    /\ discoverTestFunctions(a, Text(content)) # << >>


(***************************************************************************)
(* State.                                                                  *)
(***************************************************************************)
VARIABLES
    adapter,    \* the provider's TestLibraryAdapter
    fs,         \* the workspace files: content by URI, or NoFile
    items,      \* controller.items and the children below: the tree
    _map,       \* the identity index of the items in the tree
    stale,      \* items that left the tree with their index entry kept
    watchers,   \* file system watchers registered so far
    tasks,      \* handlers suspended on an await
    events,     \* external events so far
    lastOp,     \* the step taken last
    isDebug,    \* the profile kind _startTestRun was called for
    request,    \* the TestRunRequest while _startTestRun expands it
    queue,      \* the queue of _startTestRun
    log,        \* the states reported to the TestRun, in order
    ended,      \* calls of run.end()
    pc,         \* where _startTestRun stands
    cur,        \* the queue entry at hand
    token,      \* the handler's token is cancelled
    runToken,   \* run.token is cancelled
    proc,       \* the process of each queue entry
    race,       \* what settled Promise.race of _run, and the exit code
    dbg,        \* the debug attempt of _debug and the host's session
    source,     \* the lines of the content a GoParser was constructed with
    parsed      \* what parse() returned for them

catVars == <<adapter, fs, items, _map, stale, watchers, tasks, events, lastOp>>
runVars == <<isDebug, request, queue, log, ended, pc, cur, token, runToken, proc, race, dbg>>
parserVars == <<source, parsed>>

cat == Catalog(items, _map, stale)

SetCatalog(c) == items' = c.items /\ _map' = c.map /\ stale' = c.stale

(***************************************************************************)
(* Handlers.  A handler runs to its next await in one step; an await on    *)
(* the file system completes in a step of its own, and the code behind it  *)
(* runs in a later one.                                                    *)
(***************************************************************************)
Task(op, phase, uri, content, rest) ==
    [op |-> op, phase |-> phase, uri |-> uri, content |-> content, rest |-> rest]
Idle == Task("idle", "", UX, NoFile, << >>)

\* the step taken last: its name, whether a discovery that found functions
\* left the tree as it was, the tree a purge started from, and whether
\* _onUpdateEmitter fired
Op(name, uri) == [op |-> name, same |-> FALSE, before |-> {}, fired |-> FALSE]
Discovered(name, found, its1, its2) ==
    [op |-> name, same |-> found /\ its1 = its2, before |-> {}, fired |-> found]
Purged(its) == [op |-> "purge", same |-> FALSE, before |-> its, fired |-> FALSE]

FreeSlots(ts) == {i \in DOMAIN ts : ts[i] = Idle}

\* pending handlers have no order among them: of the arrangements of the
\* same handlers over the slots one is kept
Settle(ts) ==
    LET n == Len(ts)
        perms == {p \in [1..n -> 1..n] : \A i, j \in 1..n : p[i] = p[j] => i = j}
    IN CHOOSE s \in {[i \in 1..n |-> ts[p[i]]] : p \in perms} : TRUE

\* put the new tasks into the lowest free slots
RECURSIVE Spawn(_, _)
Spawn(ts, new) ==
    IF new = << >> THEN Settle(ts)
    ELSE LET i == CHOOSE i \in FreeSlots(ts) : \A j \in FreeSlots(ts) : i <= j
         IN Spawn([ts EXCEPT ![i] = Head(new)], Tail(new))

Copies(t, n) == [i \in 1..n |-> t]

\* a handler that reaches the read of _discoverTestsInFile
Reading(op, uri, rest) == Task(op, "reading", uri, NoFile, rest)

Event == events < MaxEvents /\ events' = events + 1

\* watcher.onDidCreate, once per registered watcher
FsCreate(u, c) ==
    /\ Event
    /\ fs[u] = NoFile
    /\ fs' = [fs EXCEPT ![u] = c]
    /\ LET n == IF Scannable(u) THEN watchers ELSE 0 IN
       /\ Cardinality(FreeSlots(tasks)) >= n
       /\ tasks' = Spawn(tasks, Copies(Reading("create", u, << >>), n))
    /\ lastOp' = Op("create", u)
    /\ UNCHANGED <<adapter, items, _map, stale, watchers>>
    /\ UNCHANGED <<runVars, parserVars, sep>>

\* the head of watcher.onDidChange in front of the read
ChangeHead(c, u) ==
    IF FileEntries(c, u) = {}
    THEN {IF Scannable(u) THEN c ELSE _purgeEntriesWithNoChildren(c)}
    ELSE {RefreshFileHead(c, test) : test \in FileEntries(c, u)}

RECURSIVE ChangeHeads(_, _, _)
ChangeHeads(cs, u, n) ==
    IF n = 0 THEN cs
    ELSE ChangeHeads(UNION {ChangeHead(c, u) : c \in cs}, u, n - 1)

\* watcher.onDidChange, once per registered watcher
FsChange(u, c) ==
    /\ Event
    /\ fs[u] # NoFile
    /\ fs' = [fs EXCEPT ![u] = c]
    /\ \E c1 \in ChangeHeads({cat}, u, watchers) : SetCatalog(c1)
    /\ LET n == IF Scannable(u) THEN watchers ELSE 0 IN
       /\ Cardinality(FreeSlots(tasks)) >= n
       /\ tasks' = Spawn(tasks, Copies(Reading("change", u, << >>), n))
    /\ lastOp' = Op("change", u)
    /\ UNCHANGED <<adapter, watchers>>
    /\ UNCHANGED <<runVars, parserVars, sep>>

\* watcher.onDidDelete
DeleteHead(c, u) ==
    IF FileEntries(c, u) = {} THEN {c}
    ELSE {DeleteFileEntry(c, test) : test \in FileEntries(c, u)}

RECURSIVE DeleteHeads(_, _, _)
DeleteHeads(cs, u, n) ==
    IF n = 0 THEN cs
    ELSE DeleteHeads(UNION {DeleteHead(c, u) : c \in cs}, u, n - 1)

\* watcher.onDidDelete, once per registered watcher
FsDelete(u) ==
    /\ Event
    /\ fs[u] # NoFile
    /\ fs' = [fs EXCEPT ![u] = NoFile]
    /\ \E c1 \in DeleteHeads({cat}, u, watchers) : SetCatalog(c1)
    /\ lastOp' = Op("delete", u)
    /\ UNCHANGED <<adapter, watchers, tasks>>
    /\ UNCHANGED <<runVars, parserVars, sep>>

\* workspace.onDidOpenTextDocument: the document text is at hand
OpenDocument(u) ==
    /\ Event
    /\ fs[u] # NoFile
    /\ SetCatalog(_discoverTestsInFile(cat, adapter, u, fs[u]))
    /\ lastOp' = Discovered("open", Updated(adapter, u, fs[u]), items,
                            _discoverTestsInFile(cat, adapter, u, fs[u]).items)
    /\ UNCHANGED <<adapter, fs, watchers, tasks>>
    /\ UNCHANGED <<runVars, parserVars, sep>>

\* controller.resolveHandler(test) for an item of the tree
Resolve(test) ==
    /\ Event
    /\ test \in items /\ test \in DOMAIN _map
    /\ FreeSlots(tasks) # {}
    /\ LET data == _map[test] IN
       IF data.kind = "package"
       THEN /\ SetCatalog(RefreshPackageHead(cat, test))
            /\ tasks' = Spawn(tasks, << Task("refreshPackage", "listing",
                                             ItemUri(test), NoFile, << >>) >>)
       ELSE IF data.kind = "file"
            THEN /\ SetCatalog(RefreshFileHead(cat, test))
                 /\ tasks' = Spawn(tasks, << Reading("refreshFile", ItemUri(test), << >>) >>)
            ELSE /\ UNCHANGED <<items, _map, stale>>
                 /\ tasks' = Spawn(tasks, << Reading("resolve", ItemUri(test), << >>) >>)
    /\ lastOp' = Op("resolve", ItemUri(test))
    /\ UNCHANGED <<adapter, fs, watchers>>
    /\ UNCHANGED <<runVars, parserVars, sep>>

\* _discoverAllTests up to the file listing: resolveHandler(undefined) and
\* refreshHandler(token) with a token that is not cancelled yet
Rescan ==
    /\ Event
    /\ watchers < MaxWatchers
    /\ FreeSlots(tasks) # {}
    /\ SetCatalog(Catalog({}, << >>, stale \cup DOMAIN _map))
    /\ watchers' = watchers + 1
    /\ tasks' = Spawn(tasks, << Task("rescan", "finding", UX, NoFile, << >>) >>)
    /\ lastOp' = Op("rescan", UX)
    /\ UNCHANGED <<adapter, fs>>
    /\ UNCHANGED <<runVars, parserVars, sep>>

\* the token of refreshHandler is cancelled.  While the listing is awaited
\* the race is lost and the rescan returns; behind the loop over the listed
\* files nothing looks at the token any more: the calls of
\* _discoverTestsInFile were not awaited and go on
CancelRescan(i) ==
    /\ Event
    /\ tasks[i].op \in {"rescan", "scan"}
    /\ tasks' = IF tasks[i].op = "rescan" THEN Settle([tasks EXCEPT ![i] = Idle])
                ELSE tasks
    /\ lastOp' = Op("cancelRescan", UX)
    /\ UNCHANGED <<adapter, fs, items, _map, stale, watchers>>
    /\ UNCHANGED <<runVars, parserVars, sep>>

\* workspace.fs.readFile completes, or throws for a missing file
TaskRead(i) ==
    /\ tasks[i].phase = "reading"
    /\ tasks' = Settle([tasks EXCEPT ![i] =
                           IF fs[tasks[i].uri] = NoFile THEN Idle
                           ELSE Task(tasks[i].op, "resume", tasks[i].uri,
                                     fs[tasks[i].uri], tasks[i].rest)])
    /\ lastOp' = Op(IF fs[tasks[i].uri] = NoFile THEN "readFailed" ELSE "read",
                    tasks[i].uri)
    /\ UNCHANGED <<adapter, fs, items, _map, stale, watchers, events>>
    /\ UNCHANGED <<runVars, parserVars, sep>>

\* the files of a listing that get past the checks of _discoverTestsInFile
SelectScannable(us) == SelectSeq(us, Scannable)

\* a set of URIs in the order of a listing
RECURSIVE Listing(_)
Listing(us) ==
    IF us = {} THEN << >>
    ELSE LET u == CHOOSE u \in us : TRUE IN <<u>> \o Listing(us \ {u})

\* the loop of _refreshPackageEntry: the next file that is read
NextRead(t, rest) ==
    IF SelectScannable(rest) = << >> THEN Idle
    ELSE Reading(t.op, Head(SelectScannable(rest)), Tail(SelectScannable(rest)))

\* the code behind the read: the rest of _discoverTestsInFile and of its
\* caller
TaskResume(i) ==
    LET t == tasks[i]
        c1 == DiscoverContent(cat, adapter, t.uri, t.content)
    IN /\ t.phase = "resume"
       /\ SetCatalog(IF t.op = "change" THEN _purgeEntriesWithNoChildren(c1) ELSE c1)
       /\ tasks' = Settle([tasks EXCEPT ![i] = NextRead(t, t.rest)])
       /\ lastOp' = Discovered("discover", Updated(adapter, t.uri, t.content),
                               items, c1.items)
       /\ UNCHANGED <<adapter, fs, watchers, events>>
       /\ UNCHANGED <<runVars, parserVars, sep>>

\* workspace.fs.readDirectory of _refreshPackageEntry completes
TaskListed(i) ==
    LET t == tasks[i]
        files == Listing({u \in DOMAIN fs : fs[u] # NoFile /\ u.dir = t.uri.dir})
    IN /\ t.phase = "listing"
       /\ tasks' = Settle([tasks EXCEPT ![i] = NextRead(t, files)])
       /\ lastOp' = Op("listed", t.uri)
       /\ UNCHANGED <<adapter, fs, items, _map, stale, watchers, events>>
       /\ UNCHANGED <<runVars, parserVars, sep>>

\* workspace.findFiles of _discoverAllTests completes: every file is
\* handed to _discoverTestsInFile, which is not awaited
TaskFound(i) ==
    LET found == Listing({u \in DOMAIN fs : fs[u] # NoFile /\ u.test})
        new == SelectScannable(found)
        ts == [tasks EXCEPT ![i] = Idle]
    IN /\ tasks[i].phase = "finding"
       /\ Cardinality(FreeSlots(ts)) >= Len(new)
       /\ tasks' = Spawn(ts, [k \in 1..Len(new) |-> Reading("scan", new[k], << >>)])
       /\ lastOp' = Op("found", UX)
       /\ UNCHANGED <<adapter, fs, items, _map, stale, watchers, events>>
       /\ UNCHANGED <<runVars, parserVars, sep>>



(***************************************************************************)
(* Running and debugging: _startTestRun, _run, _debug.                     *)
(***************************************************************************)
\* number of queue entries of a modelled request
MaxQueue == 2

\* exit codes of a process: zero, nonzero, and the null code of a signal
NullCode == -1
ExitCodes == {0, 1, NullCode}
\* exitCode of a tracker whose onExit has not set a number
Undefined == -1

\* gatherTestItems(collection): the items of a collection in its order
gatherTestItems(its) == Listing(its)

Roots(its) == {p \in its : Len(p) = 1}

Entry(c, test) == [test |-> test, data |-> c.map[test]]

\* discoverTests that descends into suites as well
RECURSIVE discoverTestsToFunctions(_, _, _)
discoverTestsToFunctions(c, exclude, tests) ==
    IF tests = << >> THEN << >>
    ELSE LET test == Head(tests)
             rest == discoverTestsToFunctions(c, exclude, Tail(tests))
         IN IF test \in exclude \/ test \notin DOMAIN c.map THEN rest
            ELSE IF c.map[test].kind \in {"file", "package", "suite"}
                 THEN discoverTestsToFunctions(c, exclude,
                          gatherTestItems(Children(c.items, test))) \o rest
                 ELSE << Entry(c, test) >> \o rest

\* discoverTests of _startTestRun: the queue entries of a list of items
RECURSIVE discoverTests(_, _, _)
discoverTests(c, exclude, tests) ==
    IF tests = << >> THEN << >>
    ELSE LET test == Head(tests)
             rest == discoverTests(c, exclude, Tail(tests))
         IN IF test \in exclude \/ test \notin DOMAIN c.map THEN rest
            ELSE IF c.map[test].kind \in {"file", "package"}
                 THEN discoverTests(c, exclude,
                                    gatherTestItems(Children(c.items, test))) \o rest
                 ELSE << Entry(c, test) >> \o rest

\* a call of run.enqueued/started/passed/failed/skipped/errored; `at` notes
\* the queue entry that was at hand (0 while the queue is built)
Report(test, state, at) == [test |-> test, state |-> state, at |-> at]

\* one report per item of a list
ReportAll(tests, state, at) == [i \in 1..Len(tests) |-> Report(tests[i], state, at)]

\* `for (const [_, item] of test.children) run.<state>(item)`
ReportChildren(its, test, state, at) ==
    ReportAll(gatherTestItems(Children(its, test)), state, at)

Unsettled == [by |-> "none", code |-> 0]

\* request.include (all = no include given) and request.exclude
Request(all, include, exclude) ==
    [all |-> all, include |-> include, exclude |-> exclude]
NoRequest == Request(FALSE, << >>, {})

\* the debug attempt: its correlation token, its registered listeners, the
\* tracker it attached, its two promises; and the host's side of the session
OwnToken == "own"
ForeignToken == "foreign"
Tokens == {OwnToken, ForeignToken}
\* another session whose configuration carries the attempt's id (the
\* attempt's session started again)
TwinToken == "twin"
\* configuration[goTestSessionID] of a session
IdOf(tok) == IF tok = TwinToken THEN OwnToken ELSE tok

Tracker(attached, stdout, stderr, others, error, exitCode) ==
    [attached |-> attached, stdout |-> stdout, stderr |-> stderr,
     others |-> others, error |-> error, exitCode |-> exitCode]
NoTracker == Tracker(FALSE, << >>, << >>, << >>, FALSE, Undefined)

NoDebug ==
    [sessionId |-> OwnToken, listeners |-> {}, tracker |-> NoTracker,
     started |-> FALSE, stopped |-> FALSE, session |-> "none",
     trackerAsked |-> FALSE, stopRequested |-> FALSE]

\* _startTestRun that rejects the empty queue only
_startTestRunAnyDebug(debug, all, include, exclude) ==
    LET q == discoverTests(cat, exclude,
                           IF all THEN gatherTestItems(Roots(items)) ELSE include)
        rejected == q = << >>
    IN /\ pc = "idle"
       /\ Len(q) <= MaxQueue
       /\ isDebug' = debug
       /\ request' = Request(all, include, exclude)
       /\ queue' = q
       /\ log' = ReportAll([i \in 1..Len(q) |-> q[i].test], "enqueued", 0)
       /\ proc' = [i \in 1..Len(q) |-> "none"]
       /\ race' = [i \in 1..Len(q) |-> Unsettled]
       /\ ended' = IF rejected THEN ended + 1 ELSE ended
       /\ pc' = IF rejected THEN "done" ELSE "loop"
       /\ cur' = 1
       /\ UNCHANGED <<token, runToken, dbg>>
       /\ UNCHANGED <<catVars, parserVars, sep>>

\* the request arrives: the selection is expanded and the queue checked
_startTestRun(debug, all, include, exclude) ==
    LET q == discoverTests(cat, exclude,
                           IF all THEN gatherTestItems(Roots(items)) ELSE include)
        rejected == q = << >> \/ (debug /\ Len(q) > 1)
    IN /\ pc = "idle"
       /\ Len(q) <= MaxQueue
       /\ isDebug' = debug
       /\ request' = Request(all, include, exclude)
       /\ queue' = q
       /\ log' = ReportAll([i \in 1..Len(q) |-> q[i].test], "enqueued", 0)
       /\ proc' = [i \in 1..Len(q) |-> "none"]
       /\ race' = [i \in 1..Len(q) |-> Unsettled]
       /\ ended' = IF rejected THEN ended + 1 ELSE ended
       /\ pc' = IF rejected THEN "done" ELSE "loop"
       /\ cur' = 1
       /\ UNCHANGED <<token, runToken, dbg>>
       /\ UNCHANGED <<catVars, parserVars, sep>>

\* runTestQueue: the queue is exhausted
EndRun ==
    /\ pc = "loop" /\ cur > Len(queue)
    /\ ended' = ended + 1
    /\ pc' = "done"
    /\ request' = NoRequest
    /\ UNCHANGED <<isDebug, queue, log, cur, token, runToken, proc, race, dbg>>
    /\ UNCHANGED <<catVars, parserVars, sep>>

\* runTestQueue: the run's token is cancelled when the entry comes up
SkipEntry ==
    /\ pc = "loop" /\ cur <= Len(queue)
    /\ runToken
    /\ log' = Append(log, Report(queue[cur].test, "skipped", cur))
    /\ cur' = cur + 1
    /\ request' = NoRequest
    /\ UNCHANGED <<isDebug, queue, ended, pc, token, runToken, proc, race, dbg>>
    /\ UNCHANGED <<catVars, parserVars, sep>>

\* runTestQueue: the entry is started; _run or _debug runs to its first await
StartEntry ==
    /\ pc = "loop" /\ cur <= Len(queue)
    /\ ~runToken
    /\ log' = Append(log, Report(queue[cur].test, "started", cur))
    /\ IF isDebug
       THEN /\ pc' = "debugExecution"
            /\ dbg' = [NoDebug EXCEPT !.listeners = {"tracker", "start"}]
       ELSE /\ pc' = "execution"
            /\ dbg' = dbg
    /\ request' = NoRequest
    /\ UNCHANGED <<isDebug, queue, ended, cur, token, runToken, proc, race>>
    /\ UNCHANGED <<catVars, parserVars, sep>>

\* _getGoExecutionCommand throws: the Go extension is not installed
ExecutionThrows ==
    /\ pc \in {"execution", "debugExecution"}
    /\ pc' = "thrown"
    /\ UNCHANGED <<isDebug, request, queue, log, ended, cur, token, runToken, proc, race, dbg>>
    /\ UNCHANGED <<catVars, parserVars, sep>>

\* _getGoExecutionCommand yields nothing: the entry is skipped
ExecutionMissing ==
    /\ pc \in {"execution", "debugExecution"}
    /\ log' = Append(log, Report(queue[cur].test, "skipped", cur))
    /\ pc' = "loop"
    /\ cur' = cur + 1
    /\ UNCHANGED <<isDebug, request, queue, ended, token, runToken, proc, race, dbg>>
    /\ UNCHANGED <<catVars, parserVars, sep>>

\* SpawnProcess that detaches the children of the entry's item
SpawnProcessDetaching ==
    /\ pc = "execution"
    /\ proc' = [proc EXCEPT ![cur] = "running"]
    /\ pc' = "race"
    /\ items' = items \ Children(items, queue[cur].test)
    /\ UNCHANGED <<isDebug, request, queue, log, ended, cur, token, runToken, race, dbg>>
    /\ UNCHANGED <<adapter, fs, _map, stale, watchers, tasks, events, lastOp>>
    /\ UNCHANGED <<parserVars, sep>>

\* _run: the cancellation hooks are set, the process is spawned and raced
\* against the cancellation
SpawnProcess ==
    /\ pc = "execution"
    /\ proc' = [proc EXCEPT ![cur] = "running"]
    /\ pc' = "race"
    /\ UNCHANGED <<isDebug, request, queue, log, ended, cur, token, runToken, race, dbg>>
    /\ UNCHANGED <<catVars, parserVars, sep>>

\* Kill without the signal
KillNever(ps, i) == ps

\* ChildProcess.kill() of a process that has not closed
Kill(ps, i) == [ps EXCEPT ![i] = IF @ = "running" THEN "killed" ELSE @]

\* RunCancelled that returns without a report
RunCancelledSilently ==
    /\ proc' = Kill(proc, cur)
    /\ race' = [race EXCEPT ![cur] = [by |-> "cancel", code |-> 0]]
    /\ log' = log
    /\ pc' = "loop"
    /\ cur' = cur + 1

\* _run behind the race when the cancellation won
RunCancelled ==
    /\ proc' = Kill(proc, cur)
    /\ race' = [race EXCEPT ![cur] = [by |-> "cancel", code |-> 0]]
    /\ log' = log \o << Report(queue[cur].test, "skipped", cur),
                        Report(queue[cur].test, "errored", cur) >>
    /\ pc' = "loop"
    /\ cur' = cur + 1

\* RunCompleted that leaves the children of a failed entry alone
RunCompletedKeepsChildren(code) ==
    /\ log' = log \o
              (IF code = 0
               THEN << Report(queue[cur].test, "passed", cur) >>
                    \o ReportChildren(items, queue[cur].test, "passed", cur)
               ELSE << Report(queue[cur].test, "failed", cur) >>)
    /\ pc' = "loop"
    /\ cur' = cur + 1

\* _run behind the race when the process closed first
RunCompleted(code) ==
    /\ log' = log \o
              (IF code = 0
               THEN << Report(queue[cur].test, "passed", cur) >>
                    \o ReportChildren(items, queue[cur].test, "passed", cur)
               ELSE << Report(queue[cur].test, "failed", cur) >>
                    \o ReportChildren(items, queue[cur].test, "skipped", cur))
    /\ pc' = "loop"
    /\ cur' = cur + 1

\* the `close` event of the process: the race resolves with its exit code
ProcessClose(code) ==
    /\ pc = "race" /\ proc[cur] = "running"
    /\ proc' = [proc EXCEPT ![cur] = "closed"]
    /\ race' = [race EXCEPT ![cur] = [by |-> "process", code |-> code]]
    /\ RunCompleted(code)
    /\ UNCHANGED <<isDebug, request, queue, ended, token, runToken, dbg>>
    /\ UNCHANGED <<catVars, parserVars, sep>>

\* a listener of a token that was cancelled before the listener was set is
\* called from a timer
LateCancel ==
    /\ pc = "race" /\ (token \/ runToken)
    /\ RunCancelled
    /\ UNCHANGED <<isDebug, request, queue, ended, token, runToken, dbg>>
    /\ UNCHANGED <<catVars, parserVars, sep>>

\* cancelListener of _debug: vscode.debug.stopDebugging(session)
StopDebugging(d) ==
    IF "cancel" \in d.listeners
    THEN [d EXCEPT !.listeners = @ \ {"cancel"}, !.stopRequested = TRUE]
    ELSE d

\* the handler's token is cancelled: the hook of _run and the cancelListener
\* of _debug are called
CancelToken ==
    /\ pc \notin {"idle", "done", "thrown"}
    /\ ~token
    /\ token' = TRUE
    /\ IF pc = "race"
       THEN RunCancelled /\ dbg' = dbg
       ELSE /\ dbg' = StopDebugging(dbg)
            /\ UNCHANGED <<log, pc, cur, proc, race>>
    /\ UNCHANGED <<isDebug, request, queue, ended, runToken>>
    /\ UNCHANGED <<catVars, parserVars, sep>>

\* run.token is cancelled: the hook of _run is called
CancelRunToken ==
    /\ pc \notin {"idle", "done", "thrown"}
    /\ ~runToken
    /\ runToken' = TRUE
    /\ IF pc = "race"
       THEN RunCancelled
       ELSE UNCHANGED <<log, pc, cur, proc, race>>
    /\ UNCHANGED <<isDebug, request, queue, ended, token, dbg>>
    /\ UNCHANGED <<catVars, parserVars, sep>>


\* _debug behind getDebugLaunchConfiguration: vscode.debug.startDebugging
StartDebugging ==
    /\ pc = "debugExecution"
    /\ dbg' = [dbg EXCEPT !.session = "launching"]
    /\ pc' = "starting"
    /\ UNCHANGED <<isDebug, request, queue, log, ended, cur, token, runToken, proc, race>>
    /\ UNCHANGED <<catVars, parserVars, sep>>

\* an event of a debug session that does not carry the attempt's token was
\* delivered last
Other(tok, event) ==
    [op |-> tok, same |-> FALSE, before |-> {event}, fired |-> FALSE]
Foreign(event) == Other(ForeignToken, event)

\* the adapter of the attempt's session talks while the session runs
Live == dbg.session = "running"

\* trackerListener that claims the tracker of any session
createDebugAdapterTrackerAny(tok) ==
    /\ pc \in {"starting", "waitStop"}
    /\ tok = OwnToken => dbg.session = "launching" /\ ~dbg.trackerAsked
    /\ dbg' = LET d == IF tok = OwnToken THEN [dbg EXCEPT !.trackerAsked = TRUE]
                       ELSE dbg
              IN IF "tracker" \notin d.listeners THEN d
                 ELSE [d EXCEPT !.tracker = [NoTracker EXCEPT !.attached = TRUE],
                                !.listeners = @ \ {"tracker"}]
    /\ UNCHANGED <<isDebug, request, queue, log, ended, pc, cur, token, runToken, proc, race>>
    /\ lastOp' = IF tok = OwnToken THEN lastOp ELSE Other(tok, "tracker")
    /\ UNCHANGED <<adapter, fs, items, _map, stale, watchers, tasks, events>>
    /\ UNCHANGED <<parserVars, sep>>

\* the host asks the tracker factory for a session: trackerListener
createDebugAdapterTracker(tok) ==
    /\ pc \in {"starting", "waitStop"}
    /\ tok = OwnToken => dbg.session = "launching" /\ ~dbg.trackerAsked
    /\ dbg' = LET d == IF tok = OwnToken THEN [dbg EXCEPT !.trackerAsked = TRUE]
                       ELSE dbg
              IN IF "tracker" \notin d.listeners \/ IdOf(tok) # d.sessionId THEN d
                 ELSE [d EXCEPT !.tracker = [NoTracker EXCEPT !.attached = TRUE],
                                !.listeners = @ \ {"tracker"}]
    /\ UNCHANGED <<isDebug, request, queue, log, ended, pc, cur, token, runToken, proc, race>>
    /\ lastOp' = IF tok = OwnToken THEN lastOp ELSE Other(tok, "tracker")
    /\ UNCHANGED <<adapter, fs, items, _map, stale, watchers, tasks, events>>
    /\ UNCHANGED <<parserVars, sep>>

\* listener that stays registered behind its event
onDidStartDebugSessionKept(tok) ==
    /\ pc \in {"starting", "waitStop"}
    /\ tok = OwnToken => dbg.session = "launching"
    /\ dbg' = LET d == IF tok = OwnToken THEN [dbg EXCEPT !.session = "running"]
                       ELSE dbg
              IN IF "start" \notin d.listeners \/ IdOf(tok) # d.sessionId THEN d
                 ELSE [d EXCEPT !.started = TRUE]
    /\ UNCHANGED <<isDebug, request, queue, log, ended, pc, cur, token, runToken, proc, race>>
    /\ lastOp' = IF tok = OwnToken THEN lastOp ELSE Other(tok, "start")
    /\ UNCHANGED <<adapter, fs, items, _map, stale, watchers, tasks, events>>
    /\ UNCHANGED <<parserVars, sep>>

\* vscode.debug.onDidStartDebugSession: listener
onDidStartDebugSession(tok) ==
    /\ pc \in {"starting", "waitStop"}
    /\ tok = OwnToken => dbg.session = "launching"
    /\ dbg' = LET d == IF tok = OwnToken THEN [dbg EXCEPT !.session = "running"]
                       ELSE dbg
              IN IF "start" \notin d.listeners \/ IdOf(tok) # d.sessionId THEN d
                 ELSE [d EXCEPT !.started = TRUE, !.listeners = @ \ {"start"}]
    /\ UNCHANGED <<isDebug, request, queue, log, ended, pc, cur, token, runToken, proc, race>>
    /\ lastOp' = IF tok = OwnToken THEN lastOp ELSE Other(tok, "start")
    /\ UNCHANGED <<adapter, fs, items, _map, stale, watchers, tasks, events>>
    /\ UNCHANGED <<parserVars, sep>>

\* the session cannot be launched
LaunchFails ==
    /\ pc = "starting" /\ dbg.session = "launching"
    /\ dbg' = [dbg EXCEPT !.session = "failed"]
    /\ UNCHANGED <<isDebug, request, queue, log, ended, pc, cur, token, runToken, proc, race>>
    /\ UNCHANGED <<catVars, parserVars, sep>>

\* startDebugging resolves to false
NotStarted ==
    /\ pc = "starting" /\ dbg.session = "failed"
    /\ log' = Append(log, Report(queue[cur].test, "skipped", cur))
    /\ pc' = "loop"
    /\ cur' = cur + 1
    /\ UNCHANGED <<isDebug, request, queue, ended, token, runToken, proc, race, dbg>>
    /\ UNCHANGED <<catVars, parserVars, sep>>

\* startDebugging resolves to true: listener2 and cancelListener are set
\* and the termination is awaited
Started ==
    /\ pc = "starting" /\ dbg.session \in {"running", "terminated"}
    /\ dbg.started
    /\ dbg' = [dbg EXCEPT !.listeners = @ \cup {"terminate", "cancel"}]
    /\ pc' = "waitStop"
    /\ UNCHANGED <<isDebug, request, queue, log, ended, cur, token, runToken, proc, race>>
    /\ UNCHANGED <<catVars, parserVars, sep>>

\* cancelListener was set on a token that was cancelled already
LateStop ==
    /\ pc = "waitStop" /\ token /\ "cancel" \in dbg.listeners
    /\ dbg' = StopDebugging(dbg)
    /\ UNCHANGED <<isDebug, request, queue, log, ended, pc, cur, token, runToken, proc, race>>
    /\ UNCHANGED <<catVars, parserVars, sep>>

\* output events of the adapter: category and text
Outputs ==
    {<<"stdout", "PASS">>, <<"stdout", "FAIL">>, <<"stdout", "ok">>,
     <<"stderr", "PASS">>, <<"console", "FAIL">>}
Chunks(t) == Len(t.stdout) + Len(t.stderr) + Len(t.others)

\* GoTestDebugAdapterTracker.onDidSendMessage with an output event
onDidSendMessage(category, output) ==
    /\ dbg.tracker.attached /\ Live
    /\ Chunks(dbg.tracker) < MaxChunks
    /\ dbg' = [dbg EXCEPT !.tracker =
                 IF category = "stdout" THEN [@ EXCEPT !.stdout = Append(@, output)]
                 ELSE IF category = "stderr" THEN [@ EXCEPT !.stderr = Append(@, output)]
                 ELSE [@ EXCEPT !.others = Append(@, output)]]
    /\ UNCHANGED <<isDebug, request, queue, log, ended, pc, cur, token, runToken, proc, race>>
    /\ UNCHANGED <<catVars, parserVars, sep>>

\* GoTestDebugAdapterTracker.onError
onError ==
    /\ dbg.tracker.attached /\ Live
    /\ ~dbg.tracker.error
    /\ dbg' = [dbg EXCEPT !.tracker.error = TRUE]
    /\ UNCHANGED <<isDebug, request, queue, log, ended, pc, cur, token, runToken, proc, race>>
    /\ UNCHANGED <<catVars, parserVars, sep>>

\* GoTestDebugAdapterTracker.onExit with a numeric code
onExit(code) ==
    /\ dbg.tracker.attached /\ Live
    /\ dbg.tracker.exitCode = Undefined
    /\ dbg' = [dbg EXCEPT !.tracker.exitCode = code]
    /\ UNCHANGED <<isDebug, request, queue, log, ended, pc, cur, token, runToken, proc, race>>
    /\ UNCHANGED <<catVars, parserVars, sep>>

\* /^PASS$/m and /^FAIL$/m on the joined stdout
HasLine(stdout, line) == \E i \in 1..Len(stdout) : stdout[i] = line

\* Outcome with the exit code in front of the error
OutcomeExitFirst(t) ==
    IF ~t.attached THEN "skipped"
    ELSE IF t.exitCode # Undefined
         THEN (IF t.exitCode = 0 THEN "passed" ELSE "failed")
         ELSE IF t.error THEN "failed"
              ELSE IF HasLine(t.stdout, "PASS") THEN "passed"
                   ELSE IF HasLine(t.stdout, "FAIL") THEN "failed"
                   ELSE "skipped"

\* the outcome listener2 derives from the tracker
Outcome(t) ==
    IF ~t.attached THEN "skipped"
    ELSE IF t.error THEN "failed"
    ELSE IF t.exitCode # Undefined
         THEN (IF t.exitCode = 0 THEN "passed" ELSE "failed")
         ELSE IF HasLine(t.stdout, "PASS") THEN "passed"
              ELSE IF HasLine(t.stdout, "FAIL") THEN "failed"
              ELSE "skipped"

\* markAsPassed, markAsFailed and the plain run.skipped of listener2
Mark(its, test, outcome, at) ==
    IF outcome = "passed"
    THEN << Report(test, "passed", at) >> \o ReportChildren(its, test, "passed", at)
    ELSE IF outcome = "failed"
         THEN << Report(test, "failed", at) >> \o ReportChildren(its, test, "skipped", at)
         ELSE << Report(test, "skipped", at) >>

\* vscode.debug.onDidTerminateDebugSession: listener2, and _debug behind
\* sessionStopPromise
onDidTerminateDebugSession(tok) ==
    /\ pc \in {"starting", "waitStop"}
    /\ tok = OwnToken => dbg.session = "running"
    /\ LET d == IF tok = OwnToken THEN [dbg EXCEPT !.session = "terminated"] ELSE dbg
       IN IF "terminate" \notin d.listeners \/ IdOf(tok) # d.sessionId
          THEN /\ dbg' = d
               /\ UNCHANGED <<log, pc, cur>>
          ELSE /\ dbg' = [d EXCEPT !.listeners = @ \ {"terminate"}, !.stopped = TRUE]
               /\ log' = log \o Mark(items, queue[cur].test, Outcome(d.tracker), cur)
               /\ pc' = "loop"
               /\ cur' = cur + 1
    /\ UNCHANGED <<isDebug, request, queue, ended, token, runToken, proc, race>>
    /\ lastOp' = IF tok = OwnToken THEN lastOp ELSE Other(tok, "terminate")
    /\ UNCHANGED <<adapter, fs, items, _map, stale, watchers, tasks, events>>
    /\ UNCHANGED <<parserVars, sep>>

(***************************************************************************)
(* Specifications.                                                         *)
(***************************************************************************)
NoRun ==
    /\ isDebug = FALSE /\ request = NoRequest /\ queue = << >> /\ log = << >> /\ ended = 0
    /\ pc = "idle" /\ cur = 1 /\ token = FALSE /\ runToken = FALSE
    /\ proc = << >> /\ race = << >> /\ dbg = NoDebug

(***************************************************************************)
(* Calls of the parser: `source` is the content the GoParser was          *)
(* constructed with, `parsed` the call made last and what it returned.     *)
(***************************************************************************)
NoResult ==
    [parsed |-> FALSE, packageInfo |-> Absent, imports |-> << >>,
     testFunctions |-> << >>]

Call(op, start, out) == [op |-> op, start |-> start, out |-> out]

NotParsed == Call("none", 0, NoResult)

\* new GoParser(content).parse()
Parse ==
    /\ parsed' = Call("parse", 0, parse(source))
    /\ UNCHANGED <<source, catVars, runVars, sep>>

\* new GoParser(content).parsePackageName()
ParsePackageName ==
    /\ parsed' = Call("parsePackageName", 0,
                      [NoResult EXCEPT !.packageInfo = parsePackageName(source)])
    /\ UNCHANGED <<source, catVars, runVars, sep>>

\* new GoParser(content).parseImports(undefined, start)
ParseImports(start) ==
    /\ parsed' = Call("parseImports", start,
                      [NoResult EXCEPT !.imports = parseImports(source, start)])
    /\ UNCHANGED <<source, catVars, runVars, sep>>

\* no parser has been constructed
NoSource == source = << >> /\ parsed = NotParsed

Init ==
    /\ sep = PosixSep
    /\ adapter \in Adapters
    /\ fs \in [Uris -> Contents \cup {NoFile}]
    /\ items = {} /\ _map = << >> /\ stale = {}
    /\ watchers = 0
    /\ tasks = [i \in 1..MaxTasks |-> Idle]
    /\ events = 0
    /\ lastOp = Op("init", UX)
    /\ NoRun
    /\ NoSource

Next ==
    \/ \E u \in Uris, c \in Contents : FsCreate(u, c)
    \/ \E u \in Uris, c \in Contents : FsChange(u, c)
    \/ \E u \in Uris : FsDelete(u)
    \/ \E u \in Uris : OpenDocument(u)
    \/ \E test \in items : Resolve(test)
    \/ Rescan
    \/ \E i \in DOMAIN tasks : CancelRescan(i)
    \/ \E i \in DOMAIN tasks : TaskRead(i)
    \/ \E i \in DOMAIN tasks : TaskResume(i)
    \/ \E i \in DOMAIN tasks : TaskListed(i)
    \/ \E i \in DOMAIN tasks : TaskFound(i)

vars == <<catVars, runVars, parserVars, sep>>

Spec == Init /\ [][Next]_vars

\* the catalog of a workspace whose files have all been discovered
RECURSIVE DiscoverAll(_, _, _)
DiscoverAll(c, a, files) ==
    IF files = << >> THEN c
    ELSE DiscoverAll(_discoverTestsInFile(c, a, Head(files)[1], Head(files)[2]),
                     a, Tail(files))

Workspace(f) == Listing({<<u, f[u]>> : u \in {v \in DOMAIN f : f[v] # NoFile}})

RunWorkspaces ==
    {[u \in Uris |-> NoFile],
     [u \in Uris |-> IF u = UX THEN "pAB" ELSE NoFile],
     [u \in Uris |-> IF u = UX THEN "pAB" ELSE "qA"]}

\* the selections of a request
Includes(its) ==
    {<< >>} \cup {<<x>> : x \in its}
    \cup (IF MaxInclude >= 2 THEN {<<x, y>> : x \in its, y \in its} ELSE {})
    \cup (IF MaxInclude >= 3 THEN {<<x, y, z>> : x \in its, y \in its, z \in its}
          ELSE {})
Excludes(its) == {{}} \cup {{x} : x \in its}

InitRun ==
    /\ sep = PosixSep
    /\ adapter = "gocheck"
    /\ fs \in RunWorkspaces
    /\ LET c == DiscoverAll(EmptyCatalog, adapter, Workspace(fs))
       IN items = c.items /\ _map = c.map /\ stale = c.stale
    /\ watchers = 1
    /\ tasks = [i \in 1..MaxTasks |-> Idle]
    /\ events = 0
    /\ lastOp = Op("init", UX)
    /\ NoRun
    /\ NoSource

NextRun ==
    \/ /\ pc = "idle"
       /\ \E debug \in BOOLEAN, include \in Includes(items), exclude \in Excludes(items) :
             _startTestRun(debug, FALSE, include, exclude)
    \/ /\ pc = "idle"
       /\ \E debug \in BOOLEAN, exclude \in Excludes(items) :
             _startTestRun(debug, TRUE, << >>, exclude)
    \/ EndRun
    \/ SkipEntry
    \/ StartEntry
    \/ ExecutionThrows
    \/ ExecutionMissing
    \/ SpawnProcess
    \/ \E code \in ExitCodes : ProcessClose(code)
    \/ LateCancel
    \/ CancelToken
    \/ CancelRunToken
    \/ StartDebugging
    \/ \E tok \in Tokens : createDebugAdapterTracker(tok)
    \/ \E tok \in Tokens : onDidStartDebugSession(tok)
    \/ LaunchFails
    \/ NotStarted
    \/ Started
    \/ LateStop
    \/ \E o \in Outputs : onDidSendMessage(o[1], o[2])
    \/ onError
    \/ \E code \in {0, 1} : onExit(code)
    \/ \E tok \in Tokens : onDidTerminateDebugSession(tok)

SpecRun == InitRun /\ [][NextRun]_vars

(***************************************************************************)
(* The run under fairness: the steps of the handler itself are taken when  *)
(* they can be (the event loop runs every continuation that is ready),     *)
(* toolchain resolution settles one way or the other, every spawned        *)
(* process closes, and every launch either fails or starts a session that  *)
(* terminates.  Cancellation and foreign debug sessions are never forced.  *)
(***************************************************************************)
Resolution == ExecutionThrows \/ ExecutionMissing \/ SpawnProcess \/ StartDebugging

Launch == onDidStartDebugSession(OwnToken) \/ LaunchFails

Fairness ==
    /\ WF_vars(EndRun) /\ WF_vars(SkipEntry) /\ WF_vars(StartEntry)
    /\ WF_vars(Resolution)
    /\ WF_vars(\E code \in ExitCodes : ProcessClose(code))
    /\ WF_vars(LateCancel)
    /\ WF_vars(Launch) /\ WF_vars(NotStarted) /\ WF_vars(Started)
    /\ WF_vars(LateStop)
    /\ WF_vars(onDidTerminateDebugSession(OwnToken))

SpecRunFair == SpecRun /\ Fairness

(***************************************************************************)
(* A debug request while the host also reports sessions that carry the     *)
(* attempt's id again (twin) and sessions that do not (foreign).           *)
(***************************************************************************)
Sessions == Tokens \cup {TwinToken}

NextTwin ==
    \/ /\ pc = "idle"
       /\ \E include \in Includes(items), exclude \in Excludes(items) :
             _startTestRun(TRUE, FALSE, include, exclude)
    \/ EndRun
    \/ StartEntry
    \/ ExecutionMissing
    \/ CancelToken
    \/ StartDebugging
    \/ \E tok \in Sessions : createDebugAdapterTracker(tok)
    \/ \E tok \in Sessions : onDidStartDebugSession(tok)
    \/ LaunchFails
    \/ NotStarted
    \/ Started
    \/ LateStop
    \/ \E tok \in Sessions : onDidTerminateDebugSession(tok)

SpecTwin == InitRun /\ [][NextTwin]_vars

(***************************************************************************)
(* Run requests that exclude the suite S and the functions of the suite R  *)
(* of every file, whatever they include.                                   *)
(***************************************************************************)
ExcludedItems(its) ==
    {p \in its : Len(p) = 3 /\ p[3] = "S"} \cup {p \in its : Len(p) = 4 /\ p[3] = "R"}

NextExclude ==
    \/ /\ pc = "idle"
       /\ \E include \in Includes(items) :
             _startTestRun(FALSE, FALSE, include, ExcludedItems(items))
    \/ /\ pc = "idle"
       /\ _startTestRun(FALSE, TRUE, << >>, ExcludedItems(items))
    \/ EndRun
    \/ SkipEntry
    \/ StartEntry
    \/ ExecutionMissing
    \/ SpawnProcess
    \/ \E code \in ExitCodes : ProcessClose(code)
    \/ LateCancel
    \/ CancelToken
    \/ CancelRunToken

SpecExclude == InitRun /\ [][NextExclude]_vars


(***************************************************************************)
(* _purgeEntriesWithNoChildren as a function of the tree: every tree over  *)
(* the items of a discovered workspace is purged once.                     *)
(***************************************************************************)
FullCatalog ==
    DiscoverAll(EmptyCatalog, "gocheck", << <<UX, "pAB">>, <<UY, "pAB">> >>)

Parent(p) == SubSeq(p, 1, Len(p) - 1)

\* the trees: subsets of the items that hold the parent of each of their items
Trees ==
    {t \in SUBSET FullCatalog.items : \A p \in t : Len(p) > 1 => Parent(p) \in t}

InitPurge ==
    /\ sep = PosixSep
    /\ adapter = "gocheck"
    /\ fs = [u \in Uris |-> "pAB"]
    /\ items \in Trees
    /\ _map = Restrict(FullCatalog.map, items)
    /\ stale = {}
    /\ watchers = 1
    /\ tasks = [i \in 1..MaxTasks |-> Idle]
    /\ events = 0
    /\ lastOp = Op("init", UX)
    /\ NoRun
    /\ NoSource

Purge ==
    /\ lastOp.op = "init"
    /\ SetCatalog(_purgeEntriesWithNoChildren(cat))
    /\ lastOp' = Purged(items)
    /\ UNCHANGED <<adapter, fs, watchers, tasks, events>>
    /\ UNCHANGED <<runVars, parserVars, sep>>

NextPurge == Purge

SpecPurge == InitPurge /\ [][NextPurge]_vars


(***************************************************************************)
(* _discoverTestsInFile as a function of the tree and the content: over    *)
(* every tree of the items of a discovered workspace, documents of every   *)
(* content are opened, one after the other.                                *)
(***************************************************************************)
InitDiscover ==
    /\ sep = PosixSep
    /\ adapter \in Adapters
    /\ fs \in [Uris -> Contents]
    /\ items \in Trees
    /\ _map = Restrict(FullCatalog.map, items)
    /\ stale = {}
    /\ watchers = 0
    /\ tasks = [i \in 1..MaxTasks |-> Idle]
    /\ events = 0
    /\ lastOp = Op("init", UX)
    /\ NoRun
    /\ NoSource

NextDiscover == \E u \in Uris : OpenDocument(u)

SpecDiscover == InitDiscover /\ [][NextDiscover]_vars


(***************************************************************************)
(* Specification of the parser over arbitrary texts: package statements,   *)
(* imports in both forms and declarations in any order.                    *)
(***************************************************************************)
SeqsUpTo(S, n) == UNION {[1..k -> S] : k \in 0..n}

StructureLines ==
    {PackageLine("p"), PackageLine("q"),
     ImportLine(<< >>, _GOCHECK_MODULE_NAME),
     ImportLine(<<"c">>, _QUICKTEST_MODULE_NAME),
     OpenLine, CloseLine,
     EntryLine(<< >>, _QUICKTEST_MODULE_NAME),
     EntryLine(<<"c">>, _GOCHECK_MODULE_NAME),
     FuncLine("R", "TestF", "check")}

Idle0 ==
    /\ sep = PosixSep
    /\ adapter \in Adapters
    /\ fs = [u \in Uris |-> NoFile]
    /\ items = {} /\ _map = EmptyCatalog.map /\ stale = {}
    /\ watchers = 0
    /\ tasks = [i \in 1..MaxTasks |-> Idle]
    /\ events = 0
    /\ lastOp = Op("init", UX)
    /\ NoRun

InitParse ==
    /\ Idle0
    /\ source \in SeqsUpTo(StructureLines, MaxLines)
    /\ parsed = NotParsed

NextParse ==
    \/ Parse
    \/ ParsePackageName
    \/ \E start \in 0..Len(source) : ParseImports(start)

SpecParse == InitParse /\ [][NextParse]_vars

(***************************************************************************)
(* Specification of the parser over test files: a package statement, the   *)
(* imports, the declarations.                                              *)
(***************************************************************************)
_QTSUITE_MODULE_NAME == "github.com/frankban/quicktest/qtsuite"

ImportStatements ==
    {ImportLine(<< >>, _GOCHECK_MODULE_NAME),
     ImportLine(<<"check">>, _GOCHECK_MODULE_NAME),
     ImportLine(<<"check">>, _QUICKTEST_MODULE_NAME),
     ImportLine(<<"quicktest">>, _GOCHECK_MODULE_NAME),
     ImportLine(<< >>, _QTSUITE_MODULE_NAME),
     ImportLine(<<"qs">>, _QTSUITE_MODULE_NAME)}

Declarations ==
    {FuncLine("R", "TestF", "check"),
     FuncLine("R", "TestG", "quicktest"),
     FuncLine("S", "TestH", "qtsuite"),
     FuncLine("S", "TestI", "qs"),
     FuncLine("R", "TestJ", NoName)}

InitResolve ==
    /\ Idle0
    /\ \E is \in SeqsUpTo(ImportStatements, MaxImports),
          ds \in SeqsUpTo(Declarations, MaxDecls) :
            source = <<PackageLine("p")>> \o is \o ds
    /\ parsed = NotParsed

NextResolve == Parse

SpecResolve == InitResolve /\ [][NextResolve]_vars


(***************************************************************************)
(* Specification of discovery over every kind of URI, on either platform:  *)
(* documents are opened, each with some text.                              *)
(***************************************************************************)
InitScan ==
    /\ sep \in Separators
    /\ adapter \in Adapters
    /\ fs \in [AllUris -> {"pAB", "qA"}]
    /\ items = {} /\ _map = EmptyCatalog.map /\ stale = {}
    /\ watchers = 0
    /\ tasks = [i \in 1..MaxTasks |-> Idle]
    /\ events = 0
    /\ lastOp = Op("init", UX)
    /\ NoRun
    /\ NoSource

NextScan == \E u \in AllUris : OpenDocument(u)

SpecScan == InitScan /\ [][NextScan]_vars


(***************************************************************************)
(* Specification of the watcher's handlers over a discovered workspace:    *)
(* one watcher is registered; one file is created, changed and deleted and *)
(* has its File item resolved while handlers are suspended on their reads; *)
(* the other file stays as it was discovered.                              *)
(***************************************************************************)
InitWatch ==
    /\ sep = PosixSep
    /\ adapter = "gocheck"
    /\ fs \in [Uris -> Contents \cup {NoFile}]
    /\ LET c == DiscoverAll(EmptyCatalog, adapter, Workspace(fs))
       IN items = c.items /\ _map = c.map /\ stale = c.stale
    /\ watchers = 1
    /\ tasks = [i \in 1..MaxTasks |-> Idle]
    /\ events = 0
    /\ lastOp = Op("init", UX)
    /\ NoRun
    /\ NoSource

NextWatch ==
    \/ \E c \in Contents : FsCreate(UX, c)
    \/ \E c \in Contents : FsChange(UX, c)
    \/ FsDelete(UX)
    \/ \E test \in FileEntries(cat, UX) : Resolve(test)
    \/ \E i \in DOMAIN tasks : TaskRead(i)
    \/ \E i \in DOMAIN tasks : TaskResume(i)

SpecWatch == InitWatch /\ [][NextWatch]_vars


(***************************************************************************)
(* Properties.                                                             *)
(***************************************************************************)
Terminal == {"passed", "failed", "skipped", "errored"}

Entries == 1..Len(queue)

\* the states reported for queue entry i while it was at hand
EntryStates(i) ==
    LET rs == SelectSeq(log, LAMBDA r : r.at = i /\ r.test = queue[i].test)
    IN [k \in 1..Len(rs) |-> rs[k].state]

\* the state a test shows once entry i is through: its last report so far
LastState(test, i) ==
    LET ks == {k \in 1..Len(log) : log[k].test = test /\ log[k].at <= i}
    IN IF ks = {} THEN "none"
       ELSE log[CHOOSE k \in ks : \A l \in ks : l <= k].state

Kind(x) == IF x \in DOMAIN _map THEN _map[x].kind ELSE "none"

Quiescent == \A i \in DOMAIN tasks : tasks[i] = Idle

\* C1: the reports of every queue entry follow Enqueued -> Started -> one
\* terminal state: the entry is enqueued, the first state reported for it
\* afterwards is Started, and at most one terminal state follows
C1_EntryStateMachine ==
    \A i \in Entries :
        /\ log[i] = Report(queue[i].test, "enqueued", 0)
        /\ Len(EntryStates(i)) <= 2
        /\ Len(EntryStates(i)) >= 1 => EntryStates(i)[1] = "started"
        /\ Len(EntryStates(i)) = 2 => EntryStates(i)[2] \in Terminal

C3_ExitCodeDecides ==
    \A i \in Entries :
        race[i].by = "process" =>
            IF race[i].code = 0
            THEN /\ EntryStates(i) = <<"started", "passed">>
                 /\ \A c \in Children(items, queue[i].test) : LastState(c, i) = "passed"
            ELSE /\ EntryStates(i) = <<"started", "failed">>
                 /\ \A c \in Children(items, queue[i].test) : LastState(c, i) = "skipped"

\* a child passed on its own, then its suite failed with the null code
C3_Witness ==
    \E i \in Entries, j \in Entries :
        /\ j < i
        /\ queue[j].test \in Children(items, queue[i].test)
        /\ race[j] = [by |-> "process", code |-> 0]
        /\ race[i] = [by |-> "process", code |-> NullCode]

\* C4: whenever no catalog operation is in progress, no Package, File or
\* Suite node of the tree has zero children
C4_NoEmptyNodes ==
    Quiescent =>
        \A x \in items :
            Kind(x) \in {"package", "file", "suite"} => Children(items, x) # {}

HasFunction(its, y) == \E f \in its : Len(f) = 4 /\ IsPrefix(y, f)

\* C5: the purge removes, in one pass, exactly the nodes without a Function
\* below them: a Suite without Function, a File without such a Suite, a
\* Package without such a File; every other node stays with its ancestors
C5_PurgeBottomUp ==
    lastOp.op = "purge" =>
        /\ items = {y \in lastOp.before : HasFunction(lastOp.before, y)}
        /\ DOMAIN _map = items

\* an empty Suite went, its File went with it, and the Package stayed
C5_Witness ==
    /\ lastOp.op = "purge"
    /\ \E x \in lastOp.before \ items :
          /\ Len(x) = 3
          /\ Parent(x) \notin items
          /\ Parent(Parent(x)) \in items

\* the nodes the declarations of a content stand for
NodesOf(a, u, c) ==
    LET name == parsePackageName(Text(c)).name
        found == discoverTestFunctions(a, Text(c))
        packageItem == << <<u.dir, name>> >>
        fileItem == Append(packageItem, u.base)
    IN IF ~Scannable(u) \/ name = NoName \/ found = << >> THEN {}
       ELSE {packageItem, fileItem}
            \cup {Append(fileItem, found[i].receiverType) : i \in 1..Len(found)}
            \cup {fileItem \o << found[i].receiverType,
                                <<found[i].receiverType, found[i].functionName>> >> :
                  i \in 1..Len(found)}

\* C6: discovering a file with the same content again yields the same
\* nodes and parents as discovering it once, and the nodes are those named
\* by (directory, package, file name, receiver, function)
C6_DiscoverIdempotent ==
    \A u \in Uris, c \in Contents :
        LET once == _discoverTestsInFile(cat, adapter, u, c)
            twice == _discoverTestsInFile(once, adapter, u, c)
        IN /\ twice.items = once.items
           /\ DOMAIN twice.map = DOMAIN once.map
           /\ once.items = items \cup NodesOf(adapter, u, c)

\* a file was discovered whose functions were in the tree already
C6_Witness == lastOp.op \in {"discover", "open"} /\ lastOp.same /\ items # {}

Expanding == pc # "idle" /\ request # NoRequest

Selection ==
    IF request.all THEN gatherTestItems(Roots(items)) ELSE request.include

Enqueued(n) == Cardinality({i \in Entries : queue[i].test = n})

Contributions(n, F(_)) ==
    Cardinality({k \in 1..Len(Selection) : n \in F(Selection[k])})

\* what the claim lets a selected node contribute
FunctionsOf(t) ==
    IF Kind(t) \in {"package", "file"}
    THEN {f \in traceChildren(items, t) : Kind(f) = "function"}
    ELSE {t}

\* C8 as claimed: a selected Package or File contributes one entry for each
\* of its Function descendants, a selected Suite or Function itself
C8_FunctionsOfPackage ==
    Expanding /\ request.exclude = {} =>
        \A n \in items : Enqueued(n) = Contributions(n, FunctionsOf)

\* what a selected node contributes: nothing when excluded, the Suites
\* below a Package or File that are not excluded nor in an excluded File
SuitesOf(t) ==
    IF t \in request.exclude THEN {}
    ELSE IF Kind(t) \in {"package", "file"}
         THEN {x \in traceChildren(items, t) :
                  /\ Kind(x) = "suite"
                  /\ x \notin request.exclude
                  /\ Parent(x) \notin request.exclude}
         ELSE {t}

\* C8 amended: a selected Package or File contributes one entry for each
\* Suite below it, a selected Suite or Function itself
C8_SuitesOfPackage ==
    Expanding => \A n \in items : Enqueued(n) = Contributions(n, SuitesOf)

C8_Witness ==
    /\ Expanding /\ Len(queue) = 2
    /\ \E k \in 1..Len(Selection) : Kind(Selection[k]) = "package"
    /\ \A i \in Entries : Kind(queue[i].test) = "suite"

\* the queue is one that is rejected
Rejectable == pc # "idle" /\ (queue = << >> \/ (isDebug /\ Len(queue) > 1))

\* C9: a request with an empty queue, and a debug request with more than
\* one entry, is rejected: nothing is started, spawned or launched, and the
\* run is ended
C9_RejectedUpFront ==
    Rejectable =>
        /\ pc = "done" /\ ended = 1
        /\ \A k \in 1..Len(log) : log[k].state # "started"
        /\ \A i \in Entries : proc[i] = "none"
        /\ dbg.session = "none"

C9_Witness == Rejectable /\ isDebug /\ Len(queue) > 1 /\ ended = 1

\* the reports of the children of entry i while it was at hand
ChildReports(i) ==
    {log[k] : k \in {l \in 1..Len(log) : log[l].at = i /\ log[l].test # queue[i].test}}

\* C10: on the termination of the attempt's session the outcome follows the
\* precedence error, exit code, pass marker, fail marker, else Skipped; no
\* tracker gives Skipped; Passed marks the children Passed, Failed marks
\* them Skipped, Skipped leaves them alone
C10_DebugOutcome ==
    dbg.stopped =>
        LET t == dbg.tracker
            test == queue[1].test
            kids == Children(items, test)
            result == EntryStates(1)[2]
            byText == t.attached /\ ~t.error /\ t.exitCode = Undefined
        IN /\ Len(EntryStates(1)) = 2
           /\ ~t.attached => result = "skipped"
           /\ t.attached /\ t.error => result = "failed"
           /\ t.attached /\ ~t.error /\ t.exitCode = 0 => result = "passed"
           /\ t.attached /\ ~t.error /\ t.exitCode \notin {0, Undefined}
                 => result = "failed"
           /\ byText /\ HasLine(t.stdout, "PASS") => result = "passed"
           /\ byText /\ ~HasLine(t.stdout, "PASS") /\ HasLine(t.stdout, "FAIL")
                 => result = "failed"
           /\ byText /\ ~HasLine(t.stdout, "PASS") /\ ~HasLine(t.stdout, "FAIL")
                 => result = "skipped"
           /\ result = "passed" => ChildReports(1) = {Report(c, "passed", 1) : c \in kids}
           /\ result = "failed" => ChildReports(1) = {Report(c, "skipped", 1) : c \in kids}
           /\ result = "skipped" => ChildReports(1) = {}

\* a suite's session ended with an error recorded, exit code 0 and a pass
\* marker on stdout
C10_Witness ==
    /\ dbg.stopped
    /\ dbg.tracker.error /\ dbg.tracker.exitCode = 0
    /\ HasLine(dbg.tracker.stdout, "PASS")
    /\ Children(items, queue[1].test) # {}

\* the execution-level problems of an entry: the toolchain cannot be
\* resolved (its provider is missing, or it yields no command) or the debug
\* session does not start
ExecutionProblem == ExecutionThrows \/ ExecutionMissing \/ NotStarted

\* C11: an execution-level problem is isolated to its queue entry: the entry
\* is reported Skipped, nothing is spawned for it, and the queue loop goes on
\* with the next entry (and so reaches the end of the run)
C11_ProblemIsolated ==
    [][ExecutionProblem =>
        /\ log' = Append(log, Report(queue[cur].test, "skipped", cur))
        /\ proc' = proc
        /\ pc' = "loop" /\ cur' = cur + 1]_vars

NoPackage(ls) == \A n \in 1..Len(ls) : ~MatchPackage(ls[n])

\* C12: for a text without a package statement (the empty text included)
\* parse and parsePackageName return nothing, and discovery over that text
\* leaves the tree and the index as they were, whatever they hold
C12_NoPackageNoResult ==
    NoPackage(source) =>
        /\ parsed.op = "parse" => ~parsed.out.parsed /\ parsed.out = NoResult
        /\ parsed.op = "parsePackageName" => parsed.out.packageInfo = Absent
        /\ \A u \in ValidUris, c \in {EmptyCatalog, FullCatalog} :
               DiscoverLines(c, adapter, u, source) = c

C12_Witness ==
    /\ NoPackage(source)
    /\ parsed.op = "parse"
    /\ \E n \in 1..Len(source) : MatchImportSingle(source[n])
    /\ \E n \in 1..Len(source) : MatchTestFunction(source[n])

\* line n of ls declares a test whose argument is qualified
Qualified(ls, n) == MatchTestFunction(ls[n + 1]) /\ ls[n + 1].qual # NoName

Ambiguous(imports, q) == Cardinality(ImportsWithSameAlias(imports, q)) > 1

\* declarations of ls that use an alias two import entries carry
AmbiguousUses(imports, ls) ==
    {n \in 0..(Len(ls) - 1) : Qualified(ls, n) /\ Ambiguous(imports, ls[n + 1].qual)}

\* C13: when two import entries carry the alias a declaration of the file
\* uses, no declaration of the file is returned: neither the ones before nor
\* the ones after it, whatever their qualifiers resolve to
C13_AmbiguousAliasAborts ==
    (parsed.op = "parse" /\ AmbiguousUses(parsed.out.imports, source) # {})
        => parsed.out.testFunctions = << >>

C13_Witness ==
    /\ parsed.op = "parse"
    /\ parsed.out.testFunctions = << >>
    /\ \E n \in AmbiguousUses(parsed.out.imports, source) :
           /\ AmbiguousUses(parsed.out.imports, source) = {n}
           /\ \E b \in 0..(n - 1), a \in (n + 1)..(Len(source) - 1) :
                  /\ Qualified(source, b) /\ Qualified(source, a)
                  /\ ResolveQualifier(parsed.out.imports, source[b + 1].qual) # NoName
                  /\ ResolveQualifier(parsed.out.imports, source[a + 1].qual) # NoName

\* the import table binds alias a to module m
Binds(imports, a, m) ==
    \E i \in 1..Len(imports) : imports[i].alias = <<a>> /\ imports[i].moduleName = m

\* the declarations returned for the lines whose qualifier is q
ReturnedFor(out, ls, q) ==
    {i \in 1..Len(out.testFunctions) : ls[out.testFunctions[i].lineNumber + 1].qual = q}

Swapped(imports) ==
    /\ Binds(imports, _GOCHECK_PACKAGE_NAME, _QUICKTEST_MODULE_NAME)
    /\ Binds(imports, _QUICKTEST_PACKAGE_NAME, _GOCHECK_MODULE_NAME)

\* C14: the kind of a returned declaration follows the module its qualifier
\* resolves to: gocheck exactly for gopkg.in/check.v1, quicktest exactly for
\* github.com/frankban/quicktest, and the module is the one the import table
\* binds the qualifier to when it binds it; with `check` bound to quicktest
\* and `quicktest` bound to gocheck, every `check` test is returned as
\* quicktest and every `quicktest` test as gocheck (all of them, unless a
\* declaration of the file uses a doubled alias)
C14_KindByModule ==
    parsed.op = "parse" =>
        LET out == parsed.out
            tf == out.testFunctions
        IN /\ \A i \in 1..Len(tf) :
                  /\ tf[i].kind = "gocheck" <=> tf[i].argModule = _GOCHECK_MODULE_NAME
                  /\ tf[i].kind = "quicktest" <=> tf[i].argModule = _QUICKTEST_MODULE_NAME
                  /\ \A j \in 1..Len(out.imports) :
                         out.imports[j].alias = <<source[tf[i].lineNumber + 1].qual>>
                             => tf[i].argModule = out.imports[j].moduleName
           /\ Swapped(out.imports) =>
                  /\ \A n \in 0..(Len(source) - 1) :
                         (/\ AmbiguousUses(out.imports, source) = {}
                          /\ Qualified(source, n)
                          /\ source[n + 1].qual \in {_GOCHECK_PACKAGE_NAME, _QUICKTEST_PACKAGE_NAME})
                             => \E i \in 1..Len(tf) : tf[i].lineNumber = n
                  /\ \A i \in ReturnedFor(out, source, _GOCHECK_PACKAGE_NAME) :
                         tf[i].kind = "quicktest"
                  /\ \A i \in ReturnedFor(out, source, _QUICKTEST_PACKAGE_NAME) :
                         tf[i].kind = "gocheck"

C14_Witness ==
    /\ parsed.op = "parse"
    /\ Swapped(parsed.out.imports)
    /\ ReturnedFor(parsed.out, source, _GOCHECK_PACKAGE_NAME) # {}
    /\ ReturnedFor(parsed.out, source, _QUICKTEST_PACKAGE_NAME) # {}

\* module m is imported without an alias
Unaliased(imports, m) ==
    \E i \in 1..Len(imports) : imports[i].moduleName = m /\ imports[i].alias = << >>

\* line n is among the declarations returned
Returned(out, n) == \E i \in 1..Len(out.testFunctions) : out.testFunctions[i].lineNumber = n

\* C15: a declaration whose qualifier is no import's alias is returned only
\* if the qualifier is `check` and gopkg.in/check.v1 is imported without an
\* alias, or the qualifier is `quicktest` and github.com/frankban/quicktest
\* is imported without an alias
C15_DefaultNameNeedsUnaliasedImport ==
    parsed.op = "parse" =>
        \A n \in 0..(Len(source) - 1) :
            (/\ Qualified(source, n)
             /\ ImportsWithSameAlias(parsed.out.imports, source[n + 1].qual) = {}
             /\ Returned(parsed.out, n))
                => \/ /\ source[n + 1].qual = _GOCHECK_PACKAGE_NAME
                      /\ Unaliased(parsed.out.imports, _GOCHECK_MODULE_NAME)
                   \/ /\ source[n + 1].qual = _QUICKTEST_PACKAGE_NAME
                      /\ Unaliased(parsed.out.imports, _QUICKTEST_MODULE_NAME)

PackageLines(ls) == {n \in 0..(Len(ls) - 1) : MatchPackage(ls[n + 1])}

\* line n is among the imports returned
Imported(out, n) == \E i \in 1..Len(out.imports) : out.imports[i].lineNumber = n

\* an `import (` somewhere in lines from..to
BlockStarts(ls, from, to) == {k \in from..to : MatchImportStart(ls[k + 1])}

\* C16: parse returns the name and the line of the first package statement,
\* whatever follows; every import and every declaration it returns is from a
\* line behind that statement; a single-line import behind it (outside any
\* block) is returned also when another package statement lies in between,
\* and so is a test whose qualifier resolves
C16_FirstPackageAnchors ==
    (parsed.op = "parse" /\ PackageLines(source) # {}) =>
        LET out == parsed.out
            p == CHOOSE n \in PackageLines(source) : \A k \in PackageLines(source) : n <= k
        IN /\ out.parsed
           /\ out.packageInfo = [name |-> source[p + 1].name, lineNumber |-> p]
           /\ \A i \in 1..Len(out.imports) : out.imports[i].lineNumber > p
           /\ \A i \in 1..Len(out.testFunctions) : out.testFunctions[i].lineNumber > p
           /\ \A n \in (p + 1)..(Len(source) - 1) :
                  /\ (MatchImportSingle(source[n + 1]) /\ BlockStarts(source, p + 1, n) = {})
                         => Imported(out, n)
                  /\ (Qualified(source, n) /\ HasModule(out.imports, _GOCHECK_MODULE_NAME))
                         => Returned(out, n)

C16_Witness ==
    /\ parsed.op = "parse"
    /\ \E a, p, q, b \in 0..(Len(source) - 1) :
           /\ a < p /\ p < q /\ q < b
           /\ MatchImportSingle(source[a + 1])
           /\ PackageLines(source) = {p, q}
           /\ source[p + 1].name # source[q + 1].name
           /\ Imported(parsed.out, b)
           /\ ~Imported(parsed.out, a)

\* the declarations returned for line n
ReturnedAt(tf, n) == {i \in 1..Len(tf) : tf[i].lineNumber = n}

\* line n is returned exactly once, as a gocheck test with the receiver and
\* the name the line gives, by parse and by the gocheck adapter's discovery
OneGocheck(out, ls, n) ==
    LET d == TestFunction(ls[n + 1], n, _GOCHECK_MODULE_NAME)
        found == discoverTestFunctions("gocheck", ls)
    IN /\ Cardinality(ReturnedAt(out.testFunctions, n)) = 1
       /\ \A i \in ReturnedAt(out.testFunctions, n) :
              /\ out.testFunctions[i].kind = "gocheck"
              /\ out.testFunctions[i].receiverType = ls[n + 1].recv
              /\ out.testFunctions[i].functionName = ls[n + 1].fn
              /\ out.testFunctions[i] = d
       /\ Cardinality(ReturnedAt(found, n)) = 1
       /\ \A i \in ReturnedAt(found, n) : found[i] = d

\* gopkg.in/check.v1 is imported without an alias and `check` is not rebound
PlainGocheck(imports) ==
    /\ Unaliased(imports, _GOCHECK_MODULE_NAME)
    /\ ImportsWithSameAlias(imports, _GOCHECK_PACKAGE_NAME) = {}

\* a is the alias of one import, which is the one of gopkg.in/check.v1
AliasedGocheck(imports, a) ==
    /\ Cardinality(ImportsWithSameAlias(imports, a)) = 1
    /\ Binds(imports, a, _GOCHECK_MODULE_NAME)

\* C17: in a file with a package statement whose declarations use no doubled
\* alias, a test `func (s *R) TestF(c *check.C) {` is returned exactly once
\* with kind gocheck, receiver R, name TestF and its line number when
\* gopkg.in/check.v1 is imported without an alias; and so is a test whose
\* qualifier is the alias gopkg.in/check.v1 is imported under
C17_GocheckDeclaration ==
    (parsed.op = "parse" /\ AmbiguousUses(parsed.out.imports, source) = {}) =>
        \A n \in 0..(Len(source) - 1) :
            Qualified(source, n) =>
                /\ (source[n + 1].qual = _GOCHECK_PACKAGE_NAME
                    /\ PlainGocheck(parsed.out.imports))
                       => OneGocheck(parsed.out, source, n)
                /\ AliasedGocheck(parsed.out.imports, source[n + 1].qual)
                       => OneGocheck(parsed.out, source, n)

C17_Witness ==
    /\ parsed.op = "parse"
    /\ PlainGocheck(parsed.out.imports)
    /\ AliasedGocheck(parsed.out.imports, _QUICKTEST_PACKAGE_NAME)
    /\ \E n, k \in 0..(Len(source) - 1) :
           /\ source[n + 1] = FuncLine("R", "TestF", _GOCHECK_PACKAGE_NAME)
           /\ source[k + 1] = FuncLine("R", "TestG", _QUICKTEST_PACKAGE_NAME)
           /\ OneGocheck(parsed.out, source, n)
           /\ OneGocheck(parsed.out, source, k)

_QTSUITE_PACKAGE_NAME == "qtsuite"

\* github.com/frankban/quicktest/qtsuite is imported without an alias and
\* `qtsuite` is not rebound
PlainQtsuite(imports) ==
    /\ Unaliased(imports, _QTSUITE_MODULE_NAME)
    /\ ImportsWithSameAlias(imports, _QTSUITE_PACKAGE_NAME) = {}

\* a is the alias of one import, which is the one of the qtsuite module
AliasedQtsuite(imports, a) ==
    /\ Cardinality(ImportsWithSameAlias(imports, a)) = 1
    /\ Binds(imports, a, _QTSUITE_MODULE_NAME)

\* line n is returned exactly once, with kind qtsuite and the qtsuite module
OneQtsuite(out, n) ==
    /\ Cardinality(ReturnedAt(out.testFunctions, n)) = 1
    /\ \A i \in ReturnedAt(out.testFunctions, n) :
           /\ out.testFunctions[i].kind = "qtsuite"
           /\ out.testFunctions[i].argModule = _QTSUITE_MODULE_NAME

\* C18: a test whose argument is qualified by `qtsuite`, with
\* github.com/frankban/quicktest/qtsuite imported without an alias, or by
\* the alias that module is imported under, is returned exactly once, with
\* kind qtsuite and that module
C18_QtsuiteDeclaration ==
    (parsed.op = "parse" /\ AmbiguousUses(parsed.out.imports, source) = {}) =>
        \A n \in 0..(Len(source) - 1) :
            Qualified(source, n) =>
                /\ (source[n + 1].qual = _QTSUITE_PACKAGE_NAME
                    /\ PlainQtsuite(parsed.out.imports))
                       => OneQtsuite(parsed.out, n)
                /\ AliasedQtsuite(parsed.out.imports, source[n + 1].qual)
                       => OneQtsuite(parsed.out, n)

\* the closing lines behind line o
Closings(ls, o) == {k \in (o + 1)..(Len(ls) - 1) : MatchImportEnd(ls[k + 1])}

\* line o opens a block that is terminated
Terminated(ls, o) == MatchImportStart(ls[o + 1]) /\ Closings(ls, o) # {}

CloseOf(ls, o) == CHOOSE k \in Closings(ls, o) : \A j \in Closings(ls, o) : k <= j

\* line n is outside every terminated block that opens at a line which is
\* itself outside, counting from line start
RECURSIVE TopLevel(_, _, _)
TopLevel(ls, start, n) ==
    \A o \in start..(n - 1) :
        (TopLevel(ls, start, o) /\ Terminated(ls, o)) => CloseOf(ls, o) < n

\* line n is an entry line of a terminated block
InBlock(ls, start, n) ==
    \E o \in start..(n - 1) :
        /\ TopLevel(ls, start, o) /\ Terminated(ls, o)
        /\ n < CloseOf(ls, o)
        /\ MatchImportEntry(ls[n + 1])

\* the entry the text has at line n, if it has one
Written(ls, start, n) ==
    IF TopLevel(ls, start, n) /\ MatchImportSingle(ls[n + 1])
    THEN {Import(ls[n + 1], n, ls[n + 1].alias)}
    ELSE IF InBlock(ls, start, n)
         THEN {Import(ls[n + 1], n, EntryAlias(ls[n + 1]))}
         ELSE {}

\* C19: parseImports returns the single-line imports and the entry lines of
\* the terminated blocks from line start on, each once, in the order of the
\* text, with the module and the 0-based number of its line and the alias as
\* written (none when none is written); nothing else is returned and no
\* entry replaces another
C19_ImportsInSourceOrder ==
    parsed.op = "parseImports" =>
        LET r == parsed.out.imports
            start == parsed.start
        IN /\ \A i, j \in 1..Len(r) : i < j => r[i].lineNumber < r[j].lineNumber
           /\ \A i \in 1..Len(r) :
                  /\ r[i].lineNumber \in start..(Len(source) - 1)
                  /\ r[i] \in Written(source, start, r[i].lineNumber)
           /\ \A n \in start..(Len(source) - 1) :
                  \A e \in Written(source, start, n) : \E i \in 1..Len(r) : r[i] = e

C19_Witness ==
    /\ parsed.op = "parseImports"
    /\ LET r == parsed.out.imports
       IN \E i, j \in 1..Len(r) :
              /\ i < j
              /\ r[i].alias = r[j].alias /\ r[i].alias # << >>
              /\ TopLevel(source, parsed.start, r[i].lineNumber)
              /\ InBlock(source, parsed.start, r[j].lineNumber)

\* the URIs that are never to be scanned: not a file-scheme path ending in
\* `_test.go`, below a directory named testdata, or named with a leading
\* dot or underscore
Excluded(u) ==
    \/ u.scheme # "file" \/ ~u.test
    \/ \E i \in 1..Len(u.dir) : u.dir[i] = "testdata"
    \/ u.base # << >> /\ u.base[1] \in {".", "_"}

\* C20: discovery in the document of an excluded URI creates no node and no
\* index entry, whatever the text of the document
C20_ExcludedNeverScanned ==
    [][\A u \in AllUris :
           (Excluded(u) /\ OpenDocument(u)) => items' = items /\ _map' = _map]_vars

\* the Function nodes of the tree whose file is u
FunctionNodes(its, u) == {p \in its : Len(p) = 4 /\ ItemUri(p) = u}

\* the Function nodes the declarations of a content stand for
DeclaredIn(a, u, c) == {p \in NodesOf(a, u, c) : Len(p) = 4}

\* C21: when a re-parse of a file is through (the handler of a document that
\* was opened, or the code behind the read of a create, change or refresh
\* handler), the Function nodes of that file are exactly the declarations of
\* the content that was parsed
C21_FunctionsOfLatestParse ==
    [][/\ \A u \in Uris :
              OpenDocument(u) => FunctionNodes(items', u) = DeclaredIn(adapter, u, fs[u])
       /\ \A i \in DOMAIN tasks :
              TaskResume(i) =>
                  FunctionNodes(items', tasks[i].uri)
                      = DeclaredIn(adapter, tasks[i].uri, tasks[i].content)]_vars

\* the steps that take nodes out of the tree: a delete event with its
\* purge, a change event or a resolve that refreshes a File or a Package,
\* and the clearing of a full rescan
Removing ==
    \/ \E u \in Uris : FsDelete(u)
    \/ \E u \in Uris, c \in Contents : FsChange(u, c)
    \/ \E test \in items : Resolve(test)
    \/ Rescan

\* C22: the index follows the tree: a step that takes nodes out of the tree
\* leaves no index entry behind for a node that is no longer in the tree,
\* and every node of the tree has an index entry
C22_IndexFollowsTree ==
    [][Removing => stale' \subseteq stale /\ items' \subseteq DOMAIN _map']_vars

\* the File nodes the declarations of a content stand for: one, or none
FileOf(a, u, c) == {p \in NodesOf(a, u, c) : Len(p) = 2}

\* handler i is the change handler of the file's latest content, and it
\* completes in this step
ChangeCompletes(i) ==
    TaskResume(i) /\ tasks[i].op = "change" /\ tasks[i].content = fs[tasks[i].uri]

\* what C23 asks of the step in which change handler i completes
Pruned(i) ==
    LET after == Catalog(items', _map', stale') IN
    /\ FileEntries(after, tasks[i].uri)
           \subseteq FileOf(adapter, tasks[i].uri, tasks[i].content)
    /\ _findPackageEntriesWithNoChildren(after) = {}

\* C23 as stated: when the handler of a change event completes, the file
\* has no File node but the one its new content stands for (none when the
\* content has no package statement or no declarations, the one under the
\* new package when the package name changed), and no Package without a
\* File is left
C23_ChangePrunes ==
    [][\A i \in DOMAIN tasks : ChangeCompletes(i) => Pruned(i)]_vars

\* C23 for a handler that was not overtaken: the same, when no discovery
\* has added functions for the file since the change event cleared or
\* missed its File node
C23_ChangePrunesUndisturbed ==
    [][\A i \in DOMAIN tasks :
           (ChangeCompletes(i) /\ FunctionNodes(items, tasks[i].uri) = {})
               => Pruned(i)]_vars

\* a change handler is about to complete for a file that lost its
\* declarations and whose File node is in the tree, cleared
C23_Witness ==
    \E i \in DOMAIN tasks :
        /\ tasks[i].op = "change" /\ tasks[i].phase = "resume"
        /\ NodesOf(adapter, tasks[i].uri, tasks[i].content) = {}
        /\ FileEntries(cat, tasks[i].uri) # {}
        /\ FunctionNodes(items, tasks[i].uri) = {}

\* a create or change handler for u is suspended on its read
Suspended(u) ==
    \E i \in DOMAIN tasks : tasks[i].uri = u /\ tasks[i].op \in {"create", "change"}

\* the delete event for u has been handled (the file is gone and the handler
\* left no File node) while a create or change handler for u is suspended
DeletedWhileSuspended(u) ==
    Suspended(u) /\ fs[u] = NoFile /\ FileEntries(cat, u) = {}

\* the delete event of the watched file was handled under a suspended handler
DeletedUnderHandler == DeletedWhileSuspended(UX)

\* create or change handler i completes in this step, no other handler for
\* its path is pending, and the path has been deleted since it was suspended
LastHandlerCompletes(i) ==
    /\ TaskResume(i) /\ tasks[i].op \in {"create", "change"}
    /\ fs[tasks[i].uri] = NoFile
    /\ \A j \in DOMAIN tasks \ {i} : tasks[j] = Idle \/ tasks[j].uri # tasks[i].uri

\* C24: if the delete event for a path is handled while a create or change
\* handler for the same path is suspended on its read, then once the pending
\* handlers of the path have finished the catalog has no File node for it
C24_DeleteWins ==
    [][\A i \in DOMAIN tasks :
           LastHandlerCompletes(i) =>
               FileEntries(Catalog(items', _map', stale'), tasks[i].uri) = {}]_vars

\* the queue loop of runTestQueue is at an entry
AtEntry == pc = "loop" /\ cur <= Len(queue)

\* the loop turns to its entry by reporting it skipped, or stays
SkipsOrWaits == SkipEntry \/ UNCHANGED <<log, pc, cur, proc, dbg>>

\* C25: once cancellation has been signalled on the handler's token or on
\* the run's token, no later queue entry is reported started and nothing is
\* launched for it: every entry the loop comes to is reported skipped
C25_CancelledSkipsRest ==
    [][((token \/ runToken) /\ AtEntry) => SkipsOrWaits]_vars

\* C25 for the run's own token: once run.token is cancelled, every entry
\* the loop comes to is reported skipped
C25_RunTokenSkipsRest ==
    [][(runToken /\ AtEntry) => SkipsOrWaits]_vars

\* the second entry has been started and its process spawned after the
\* handler's token had cancelled the first
StartedAfterCancel ==
    /\ token /\ ~runToken /\ cur = 2 /\ pc = "race"
    /\ race[1].by = "cancel" /\ proc[2] = "running"

\* the run has been ended, once
Ended == pc = "done" /\ ended = 1

\* entry i has been reported started / has been given a terminal state
ReportedStarted(i) == \E k \in DOMAIN log : log[k].at = i /\ log[k].state = "started"
ReportedTerminal(i) ==
    \E k \in DOMAIN log :
        log[k].at = i /\ log[k].state \in Terminal

\* C26: every run request ends its run, exactly once, and every entry that
\* was reported started reaches a terminal state, when processes close and
\* debug sessions terminate
C26_RunEnds ==
    /\ [](pc # "idle" => <>Ended)
    /\ [](ended <= 1)
    /\ \A i \in 1..MaxQueue : [](ReportedStarted(i) => <>ReportedTerminal(i))

\* toolchain resolution threw: the handler is gone and the run was not ended
Thrown == pc = "thrown" /\ ended = 0

\* the session terminated before listener2 was set: the debug step waits
TerminatedUnheard ==
    /\ pc = "waitStop" /\ dbg.session = "terminated" /\ "terminate" \in dbg.listeners

\* C26 on the other paths: a run ends unless toolchain resolution threw or
\* the session terminated before listener2 was set
C26_RunEndsOtherwise ==
    [](pc # "idle" => <>(Ended \/ Thrown \/ TerminatedUnheard))

\* the run never ends behind a termination that was not heard
C26_UnheardEnds == [](TerminatedUnheard => <>Ended)

\* the session runs, the handler's token was cancelled before the start
\* event, and the stop has been requested
StopAfterEarlyCancel ==
    /\ pc = "waitStop" /\ dbg.session = "running" /\ token /\ dbg.stopRequested

\* the debug session of the entry is active and the debug step waits for
\* its termination
DebugActive == pc = "waitStop" /\ dbg.session = "running"

\* the debug step returns in this step
DebugReturns == pc = "waitStop" /\ pc' # "waitStop"

\* C27: when cancellation is signalled (on the handler's token or on the
\* run's token) while the entry's debug session is active, the stop of that
\* session is requested, and the debug step returns only in the step that
\* handles the termination event of that session
C27_CancelStopsSession ==
    [][/\ (DebugActive /\ ((~token /\ token') \/ (~runToken /\ runToken')))
              => dbg'.stopRequested
       /\ DebugReturns => onDidTerminateDebugSession(OwnToken)]_vars

\* C27 for the handler's token: its cancellation during the active session
\* requests the stop, and the debug step returns only with the termination
\* event of the session
C27_TokenStopsSession ==
    [][/\ (DebugActive /\ ~token /\ token') => dbg'.stopRequested
       /\ DebugReturns => onDidTerminateDebugSession(OwnToken)]_vars

\* the run's token was cancelled during the active session and no stop has
\* been requested
CancelledUnstopped == DebugActive /\ runToken /\ ~token /\ ~dbg.stopRequested

\* a tracker request, a start event or a termination event of a session
\* that does not carry the attempt's token is delivered in this step
ForeignEvent ==
    \/ createDebugAdapterTracker(ForeignToken)
    \/ onDidStartDebugSession(ForeignToken)
    \/ onDidTerminateDebugSession(ForeignToken)

\* C28: an event of a session without the attempt's token attaches no
\* tracker, resolves neither the start wait nor the stop wait, disposes no
\* listener and reports nothing for the entry
C28_ForeignEventsIgnored ==
    [][ForeignEvent => UNCHANGED <<dbg, log, pc, cur, ended>>]_vars

\* a foreign session has terminated while the attempt waits for the
\* termination of its own running session with its tracker attached
C28_Witness ==
    /\ lastOp = Foreign("terminate")
    /\ pc = "waitStop" /\ dbg.session = "running"
    /\ "terminate" \in dbg.listeners /\ dbg.tracker.attached

\* the listener acts in this step: trackerListener attaches the tracker,
\* listener resolves the start wait, listener2 resolves the stop wait
Claims == ~dbg.tracker.attached /\ dbg'.tracker.attached
Starts == ~dbg.started /\ dbg'.started
Stops == ~dbg.stopped /\ dbg'.stopped

\* listener l is registered before the step and disposed by it
Disposed(l) == l \in dbg.listeners /\ l \notin dbg'.listeners

\* an event of a session that carries the attempt's id is delivered to the
\* three listeners, none of which is registered any more
SameIdUnheard ==
    /\ \E tok \in {OwnToken, TwinToken} :
          \/ createDebugAdapterTracker(tok) /\ "tracker" \notin dbg.listeners
          \/ onDidStartDebugSession(tok) /\ "start" \notin dbg.listeners
          \/ onDidTerminateDebugSession(tok) /\ "terminate" \notin dbg.listeners

\* C29: trackerListener, listener and listener2 are one-shot: the step in
\* which one of them acts disposes it, it acts once, and an event delivered
\* after that, even with the same id, changes nothing of the attempt
C29_OneShot ==
    [][/\ Claims => Disposed("tracker")
       /\ Starts => Disposed("start")
       /\ Stops => Disposed("terminate")
       /\ dbg.tracker.attached => dbg'.tracker.attached
       /\ dbg.started => dbg'.started
       /\ SameIdUnheard =>
              /\ dbg'.tracker = dbg.tracker /\ dbg'.started = dbg.started
              /\ dbg'.stopped = dbg.stopped /\ dbg'.listeners = dbg.listeners
              /\ UNCHANGED <<log, pc, cur>>]_vars

\* the session with the attempt's id has started again after listener
\* resolved the start wait, while the attempt waits for the termination
C29_Witness ==
    /\ lastOp = Other(TwinToken, "start")
    /\ pc = "waitStop" /\ dbg.started /\ "start" \notin dbg.listeners
    /\ dbg.tracker.attached /\ "terminate" \in dbg.listeners

\* the reports made for excluded items
ExcludedReports == {k \in DOMAIN log : log[k].test \in ExcludedItems(items)}

\* C30: an item of request.exclude is neither enqueued nor started nor
\* given a result by the run, whatever is selected above it
C30_ExcludedUntouched ==
    /\ ExcludedReports = {}
    /\ \A i \in DOMAIN queue : queue[i].test \notin ExcludedItems(items)

\* C30 for the queue: an excluded item is neither enqueued nor started and
\* is no queue entry
C30_ExcludedNotQueued ==
    /\ \A k \in ExcludedReports : log[k].state \notin {"enqueued", "started"}
    /\ \A i \in DOMAIN queue : queue[i].test \notin ExcludedItems(items)

\* the suite R has passed while its functions were excluded
SuitePassedOverExcluded ==
    \E k \in DOMAIN log :
        /\ log[k].state = "passed" /\ Len(log[k].test) = 3
        /\ Children(items, log[k].test) \subseteq ExcludedItems(items)
        /\ Children(items, log[k].test) # {}

\* C31: a rejected request (empty queue, or debug with more than one entry)
\* has reported nothing in the run: no item enqueued, started or given a
\* result
C31_RejectionReportsNothing == Rejectable => log = << >>

\* C31 for what follows the expansion: a rejected request has reported no
\* item started or with a result
C31_RejectionStartsNothing ==
    Rejectable => \A k \in DOMAIN log : log[k].state = "enqueued"

\* a debug request of two entries was rejected after both were enqueued
RejectedAfterEnqueue ==
    /\ Rejectable /\ isDebug /\ pc = "done" /\ Len(queue) = 2
    /\ \A i \in 1..2 : \E k \in DOMAIN log :
           log[k].test = queue[i].test /\ log[k].state = "enqueued"

\* C32: no step of a run or debug request, whatever its outcome, changes
\* the tree of test items or the identity index
C32_RunKeepsCatalog == [][items' = items /\ _map' = _map /\ stale' = stale]_vars

\* a run has ended over a tree with children below its entries, after an
\* entry failed and another was cancelled
C32_Witness ==
    /\ pc = "done" /\ ended = 1 /\ Len(queue) = 2
    /\ \E k \in DOMAIN log : log[k].state = "failed"
    /\ \E k \in DOMAIN log : log[k].state = "errored"
    /\ \A i \in DOMAIN queue : Children(items, queue[i].test) # {}

\* the content has no package statement, or none of its declarations is of
\* the adapter's kind
NothingFor(a, c) ==
    LET found == parse(Text(c)).testFunctions IN
    \/ PackageLines(Text(c)) = {}
    \/ \A i \in DOMAIN found : found[i].kind # AdapterKind(a)

\* C33: _discoverTestsInFile with a content that has no package statement
\* or no declaration of the adapter's kind leaves the tree and the index as
\* they are, a File node of the path keeps its children, and the update
\* event is not fired
C33_NothingFoundNoOp ==
    [][\A u \in Uris :
           (OpenDocument(u) /\ NothingFor(adapter, fs[u])) =>
               /\ items' = items /\ _map' = _map /\ stale' = stale
               /\ ~lastOp'.fired]_vars

\* a document without anything for the adapter was opened while every file
\* has such a content and its File node has functions below it
C33_Witness ==
    /\ lastOp.op = "open" /\ ~lastOp.fired
    /\ \A u \in Uris : NothingFor(adapter, fs[u]) /\ FunctionNodes(items, u) # {}

\* the handlers of a kind that are pending
Pending(ts, op) == {j \in DOMAIN ts : ts[j].op = op}

\* the token of the rescan was cancelled in the step before
JustCancelled == lastOp.op = "cancelRescan"

\* C34: a full rescan clears the tree; a cancellation while a listing is
\* awaited ends the rescan with no file of the listing handed to discovery;
\* once the signal has fired no further file of the rescan is discovered
C34_CancelStopsDiscovery ==
    [][/\ Rescan => items' = {}
       /\ \A i \in DOMAIN tasks :
             (CancelRescan(i) /\ tasks[i].op = "rescan") =>
                 /\ Cardinality(Pending(tasks', "rescan"))
                        = Cardinality(Pending(tasks, "rescan")) - 1
                 /\ Cardinality(Pending(tasks', "scan"))
                        = Cardinality(Pending(tasks, "scan"))
       /\ \A i \in DOMAIN tasks :
             (JustCancelled /\ TaskResume(i) /\ tasks[i].op = "scan") => items' = items]_vars

\* C34 up to the end of the listing: the rescan clears the tree, and a
\* cancellation while the listing is awaited ends the rescan with no file
\* handed to discovery
C34_CancelBeforeListing ==
    [][/\ Rescan => items' = {}
       /\ \A i \in DOMAIN tasks :
             (CancelRescan(i) /\ tasks[i].op = "rescan") =>
                 /\ Cardinality(Pending(tasks', "rescan"))
                        = Cardinality(Pending(tasks, "rescan")) - 1
                 /\ Cardinality(Pending(tasks', "scan"))
                        = Cardinality(Pending(tasks, "scan"))]_vars

\* the token was cancelled while a listed file with declarations was read
CancelledInFlight ==
    /\ JustCancelled
    /\ \E i \in DOMAIN tasks :
          /\ tasks[i].op = "scan" /\ tasks[i].phase = "resume"
          /\ NodesOf(adapter, tasks[i].uri, tasks[i].content) # {}

\* the files a listing of the workspace returns
Listed == {u \in DOMAIN fs : fs[u] # NoFile /\ u.test}

\* the rescan returns: its listing is through and no cancellation came
RescanCompletes(i) == TaskFound(i)

\* C35: when a full rescan completes without cancellation, the catalog
\* already holds the Package, File, Suite and Function nodes of every
\* listed file that has declarations of the adapter's kind
C35_RescanCompleteHasAll ==
    [][\A i \in DOMAIN tasks :
          RescanCompletes(i) =>
              \A u \in Listed : NodesOf(adapter, u, fs[u]) \subseteq items']_vars

\* the rescan has returned while a listed file with declarations is still
\* unread and absent from the tree
ReturnedBeforeDiscovery ==
    /\ lastOp.op = "found"
    /\ Pending(tasks, "rescan") = {}
    /\ \E i \in Pending(tasks, "scan") :
          /\ tasks[i].phase = "reading"
          /\ NodesOf(adapter, tasks[i].uri, fs[tasks[i].uri]) # {}
          /\ NodesOf(adapter, tasks[i].uri, fs[tasks[i].uri]) \cap items = {}

\* the handlers that one event for a path starts
Invoked(op) == Cardinality(Pending(tasks', op)) - Cardinality(Pending(tasks, op))

\* C36: after any number of full rescans one create, change or delete
\* event for a path reaches at most one handler of the workspace root: the
\* subscriptions of earlier rescans are no longer active
C36_OneHandlerPerEvent ==
    [][\A u \in Uris :
          /\ (\E c \in Contents : FsCreate(u, c)) => Invoked("create") <= 1
          /\ (\E c \in Contents : FsChange(u, c)) => Invoked("change") <= 1
          /\ FsDelete(u) => \E n \in 0..1 : \E c1 \in DeleteHeads({cat}, u, n) :
                                items' = c1.items /\ _map' = c1.map]_vars

\* two rescans have come and gone and one create event has started two
\* handlers for the same file
HandledTwice ==
    /\ watchers = 2
    /\ lastOp.op = "create"
    /\ \E i, j \in Pending(tasks, "create") : i # j /\ tasks[i].uri = tasks[j].uri

\* the kinds of the nodes by their depth in the tree
KindAtDepth == <<"package", "file", "suite", "function">>

\* a node carries the identifier the code builds for its kind
IdentifiedByKind(p) ==
    /\ Len(p) >= 1 => Len(p[1]) = 2 /\ p[1][2] # NoName
    /\ Len(p) >= 2 => \E u \in AllUris : u.dir = p[1][1] /\ u.base = p[2]
    /\ Len(p) = 3 => _map[p].name = p[3]
    /\ Len(p) = 4 => /\ _map[p].data.receiverType = p[3]
                     /\ p[4] = <<p[3], _map[p].data.functionName>>

\* C37: every tree is typed by depth: roots are Packages, their children
\* Files, then Suites, then Functions, which have no children; a node's
\* identifier is the one of its kind (directory and package name, file
\* name, receiver type, receiver type and function name), so that siblings
\* differ in it
C37_TypedByDepth ==
    \A p \in items :
        /\ Len(p) \in 1..4
        /\ Len(p) > 1 => Parent(p) \in items
        /\ Kind(p) = KindAtDepth[Len(p)]
        /\ IdentifiedByKind(p)
        /\ \A q \in Children(items, Parent(p)) : q[Len(q)] = p[Len(p)] => q = p

\* a discovery behind a change has built a tree of all four depths with
\* two sibling suites
C37_Witness ==
    /\ lastOp.op = "discover" /\ lastOp.fired
    /\ \E p, q \in items :
          /\ Len(p) = 4 /\ Len(q) = 4 /\ p # q
          /\ Parent(Parent(p)) = Parent(Parent(q))

(***************************************************************************)
(* The commands of the adapters.  An argument is the sequence of the       *)
(* pieces the code concatenates.                                           *)
(***************************************************************************)
\* `^${name}$`
Anchored(name) == <<"^", name, "$">>

\* GocheckTestLibraryAdapter and QtsuiteTestLibraryAdapter: getRunCommand
getRunCommand(a, data) ==
    IF a = "gocheck"
    THEN IF data.kind = "suite"
         THEN [args |-> << <<"test">>, <<"-check.f">>, Anchored(data.name) >>]
         ELSE [args |-> << <<"test">>, <<"-check.f">>,
                           <<"^", data.data.receiverType, ".",
                             data.data.functionName, "$">> >>]
    ELSE IF data.kind = "suite"
         THEN [args |-> << <<"test">>, <<"-run">>, Anchored(data.name) >>]
         ELSE [args |-> << <<"test">>, <<"-run">>,
                           <<".*/", data.data.functionName, "$">> >>]

\* getDebugCommand that leaves the end of a function's pattern open
getDebugCommandOpenEnded(a, data) ==
    IF a = "gocheck"
    THEN IF data.kind = "suite"
         THEN [args |-> << <<"-check.f">>, Anchored(data.name) >>]
         ELSE [args |-> << <<"-check.f">>,
                           <<"^", data.data.receiverType, ".",
                             data.data.functionName>> >>]
    ELSE IF data.kind = "suite"
         THEN [args |-> << <<"-test.run">>, Anchored(data.name) >>]
         ELSE [args |-> << <<"-test.run">>,
                           <<".*/", data.data.functionName>> >>]

\* GocheckTestLibraryAdapter and QtsuiteTestLibraryAdapter: getDebugCommand
getDebugCommand(a, data) ==
    IF a = "gocheck"
    THEN IF data.kind = "suite"
         THEN [args |-> << <<"-check.f">>, Anchored(data.name) >>]
         ELSE [args |-> << <<"-check.f">>,
                           <<"^", data.data.receiverType, ".",
                             data.data.functionName, "$">> >>]
    ELSE IF data.kind = "suite"
         THEN [args |-> << <<"-test.run">>, Anchored(data.name) >>]
         ELSE [args |-> << <<"-test.run">>,
                           <<".*/", data.data.functionName, "$">> >>]

\* the command assembled last, for the data of an item
Commanded(name, data, args) ==
    [op |-> name, same |-> FALSE, before |-> {}, fired |-> FALSE,
     data |-> data, args |-> args]

\* the items that can be run
Runnable == {test \in items : Kind(test) \in {"suite", "function"}}

\* _run up to spawn: the arguments of the test process
RunArguments(test) ==
    /\ test \in Runnable
    /\ lastOp' = Commanded("run", _map[test], getRunCommand(adapter, _map[test]).args)
    /\ UNCHANGED <<adapter, fs, items, _map, stale, watchers, tasks, events>>
    /\ UNCHANGED <<runVars, parserVars, sep>>

\* getDebugLaunchConfiguration: the arguments of the launch configuration
getDebugLaunchConfiguration(test) ==
    /\ test \in Runnable
    /\ lastOp' = Commanded("launch", _map[test], getDebugCommand(adapter, _map[test]).args)
    /\ UNCHANGED <<adapter, fs, items, _map, stale, watchers, tasks, events>>
    /\ UNCHANGED <<runVars, parserVars, sep>>

\* the catalog of a workspace under either adapter
InitCommand ==
    /\ sep = PosixSep
    /\ adapter \in Adapters
    /\ fs \in [Uris -> Contents \cup {NoFile}]
    /\ LET c == DiscoverAll(EmptyCatalog, adapter, Workspace(fs))
       IN items = c.items /\ _map = c.map /\ stale = c.stale
    /\ watchers = 1
    /\ tasks = [i \in 1..MaxTasks |-> Idle]
    /\ events = 0
    /\ lastOp = Op("init", UX)
    /\ NoRun
    /\ NoSource

NextCommand ==
    \/ \E test \in items : RunArguments(test)
    \/ \E test \in items : getDebugLaunchConfiguration(test)

SpecCommand == InitCommand /\ [][NextCommand]_vars

\* the flag and the pattern the adapters are to pass for the data of an item
FilterFlag(a, debug) ==
    IF a = "gocheck" THEN <<"-check.f">>
    ELSE IF debug THEN <<"-test.run">> ELSE <<"-run">>

FilterPattern(a, data) ==
    IF data.kind = "suite" THEN <<"^", data.name, "$">>
    ELSE IF a = "gocheck"
         THEN <<"^", data.data.receiverType, ".", data.data.functionName, "$">>
         ELSE <<".*/", data.data.functionName, "$">>

\* C38: the gocheck adapter runs with 'test', '-check.f' and the pattern
\* ^receiver.function$ and debugs with '-check.f' and the same pattern; the
\* quicktest adapter runs with 'test', '-run' and .*/function$ and debugs
\* with '-test.run' and the same pattern; a suite is anchored as ^suite$
\* under the same flags; the debug pattern is always the run pattern
C38_AdapterCommands ==
    /\ lastOp.op = "run" =>
          lastOp.args = << <<"test">>, FilterFlag(adapter, FALSE),
                           FilterPattern(adapter, lastOp.data) >>
    /\ lastOp.op = "launch" =>
          /\ lastOp.args = << FilterFlag(adapter, TRUE),
                              FilterPattern(adapter, lastOp.data) >>
          /\ lastOp.args[2] = getRunCommand(adapter, lastOp.data).args[3]

\* a launch configuration was assembled for a function
C38_Witness ==
    /\ lastOp.op = "launch"
    /\ lastOp.data.kind = "function"
    /\ lastOp.args[2] = getRunCommand(adapter, lastOp.data).args[3]

(***************************************************************************)
(* The adapters' discoverTestFunctions on contents with and without a      *)
(* package statement.                                                      *)
(***************************************************************************)
PackageStatements == {<< >>, <<PackageLine("p")>>}

InitAdapters ==
    /\ Idle0
    /\ \E pk \in PackageStatements,
          is \in SeqsUpTo(ImportStatements, MaxImports),
          ds \in SeqsUpTo(Declarations, MaxDecls) :
            source = pk \o is \o ds
    /\ parsed = NotParsed

\* this.adapter.discoverTestFunctions(content, uri.path)
DiscoverTestFunctions ==
    /\ parsed' = Call("discover", 0, discoverTestFunctions(adapter, source))
    /\ UNCHANGED <<source, catVars, runVars, sep>>

NextAdapters == DiscoverTestFunctions

SpecAdapters == InitAdapters /\ [][NextAdapters]_vars

OtherAdapter(a) == CHOOSE b \in Adapters : b # a

Elements(s) == {s[i] : i \in DOMAIN s}

Position(s, x) == CHOOSE k \in DOMAIN s : s[k] = x

\* C39: an adapter's discoverTestFunctions returns exactly the parser's
\* declarations of the adapter's kind, in the parser's order; what the two
\* adapters return for one content is disjoint, a declaration of unknown
\* kind is returned by neither, and a content without a package statement
\* yields the empty sequence
C39_AdapterReturnsItsKind ==
    parsed.op = "discover" =>
        LET all == parse(source).testFunctions
            out == parsed.out
            other == discoverTestFunctions(OtherAdapter(adapter), source)
            mine == {k \in DOMAIN all : all[k].kind = AdapterKind(adapter)}
        IN /\ Elements(out) = {all[k] : k \in mine}
           /\ Len(out) = Cardinality(mine)
           /\ \A i, j \in DOMAIN out :
                 i < j => Position(all, out[i]) < Position(all, out[j])
           /\ Elements(out) \cap Elements(other) = {}
           /\ \A k \in DOMAIN all :
                 all[k].kind \notin {"gocheck", "quicktest"} =>
                     all[k] \notin Elements(out) \cup Elements(other)
           /\ PackageLines(source) = {} => out = << >>

\* an adapter returned some declarations of a content of which the other
\* adapter returns others
C39_Witness ==
    /\ parsed.op = "discover"
    /\ parsed.out # << >>
    /\ discoverTestFunctions(OtherAdapter(adapter), source) # << >>
    /\ Len(parsed.out) < Len(parse(source).testFunctions)

\* the 0-based lines that open a block no later line closes
Unterminated(ls) ==
    {n \in 0..(Len(ls) - 1) :
        /\ MatchImportStart(ls[n + 1])
        /\ \A m \in (n + 1)..(Len(ls) - 1) : ~MatchImportEnd(ls[m + 1])}

\* the 0-based lines behind the opening line n that read as block entries
EntriesBehind(ls, n) ==
    {m \in (n + 1)..(Len(ls) - 1) : MatchImportEntry(ls[m + 1])}

\* C40: an import block that no line consisting of the closing delimiter
\* terminates contributes no import entries: no line behind its opening
\* line is returned as an entry of a block
C40_UnterminatedBlockDropped ==
    parsed.op = "parseImports" =>
        \A n \in Unterminated(source) :
            \A m \in EntriesBehind(source, n) :
                \A i \in DOMAIN parsed.out.imports :
                    parsed.out.imports[i]
                        # Import(source[m + 1], m, EntryAlias(source[m + 1]))

\* parseImports has run over a text with a single-line import and, behind
\* it, an opening line that is never closed and has an entry line below
C40_Witness ==
    /\ parsed.op = "parseImports"
    /\ parsed.out.imports # << >>
    /\ \E n \in Unterminated(source) :
          /\ n >= parsed.start
          /\ \E m \in EntriesBehind(source, n) : source[m + 1].t = "entry"

====
